---- MODULE Spec2Model ----
(***************************************************************************)
(* FicWorld simulation orchestration engine: the WorldAgent (scene/turn    *)
(* state machine, actor and POV selection, event injection, outcome        *)
(* application) of src/modules/world_agent.py and the turn loop of         *)
(* src/main.py.                                                            *)
(*                                                                         *)
(* Text is modelled as a sequence of one-character strings, so that        *)
(* str.strip, str.lower, str.startswith, substring tests, slicing and      *)
(* str.split are computed character by character as Python computes them.  *)
(* None for an optional text is the empty sequence (both are falsy).       *)
(* Floating-point quantities are fixed-point integers (activity            *)
(* coefficients in tenths, random draws as numerators over RandomDen).     *)
(***************************************************************************)
EXTENDS Integers, Sequences, FiniteSets, TLC

VARIABLES
    wa,                         \* the WorldAgent object (world_agent.py:43-73)
    relationships,              \* RelationshipManager store: pair -> state
    last,                       \* observation of the most recent call
    pc,                         \* position of main() in its turn loop
    scene_num,                  \* main.py:154 loop variable
    turn_num,                   \* main.py:162 local counter
    current_scene_log_entries,  \* main.py:164
    turn,                       \* locals of the turn in progress (main.py:169-274)
    memory,                     \* the MemoryManager object (memory.py:17-21)
    agent_moods                 \* current_mood of each CharacterAgent
                                \* (character_agent.py:53-60)

vars == <<wa, relationships, last, pc, scene_num, turn_num,
          current_scene_log_entries, turn, memory, agent_moods>>

----------------------------------------------------------------------------
(* Bounds of the model *)

\* hard turn cap given to the WorldAgent constructor (default 20)
max_scene_turns == 4
\* preset.max_scenes of the runs explored
max_scenes == 2
\* recent-events limit given to the WorldAgent constructor (default 10)
recent_events_history_limit == 2
\* direct calls: init_scene is called for scene numbers up to this
MaxSceneNumber == 3
\* direct calls: apply_plan is not called beyond this turn number in the
\* specification of all nine operations
MaxApiTurns == 2
\* API harness: judge_scene_end is not called again once the stagnation
\* list is this much longer than the threshold
MaxStagnationOver == 1
\* denominator of the modelled random draws: r = n / RandomDen, 0 <= n < RandomDen
RandomDen == 4
\* direct calls: update_from_outcome is not called once recent events are
\* this long (reached only when the list is not trimmed)
MaxRecentLen == 4

----------------------------------------------------------------------------
(* Program constants *)

stagnation_detection_threshold == 3
\* 0.05 and 0.15 as fractions of 100
llm_event_injection_override_chance == 5
fallback_event_injection_chance == 15

----------------------------------------------------------------------------
(* Texts *)

\* text: 'Al'
Al == <<"A", "l">>
\* text: 'Bo'
Bo == <<"B", "o">>
\* text: 'World'
s_World == <<"W", "o", "r", "l", "d">>
\* text: 'Narrator'
s_Narrator == <<"N", "a", "r", "r", "a", "t", "o", "r">>
\* text: 'scene_'
s_scene_prefix == <<"s", "c", "e", "n", "e", "_">>
\* text: 'yes'
s_yes == <<"y", "e", "s">>
\* text: 'Yes.'
r_yes == <<"Y", "e", "s", ".">>
\* text: 'no'
r_no == <<"n", "o">>
\* text: '  YES'
r_padded_yes == <<" ", " ", "Y", "E", "S">>
\* text: 'Oh yes it is'
r_mid_yes == <<"O", "h", " ", "y", "e", "s", " ", "i", "t", " ", "i", "s">>
\* text: 'I would say yes'
r_far_yes == <<"I", " ", "w", "o", "u", "l", "d", " ", "s", "a", "y", " ", "y", "e", "s">>
\* text: ' attempts to '
s_attempts_to == <<" ", "a", "t", "t", "e", "m", "p", "t", "s", " ", "t", "o", " ">>
\* text: '.'
s_dot == <<".">>
\* text: 'Event by '
s_event_by == <<"E", "v", "e", "n", "t", " ", "b", "y", " ">>
\* text: ': '
s_colon == <<":", " ">>
\* text: 'Unknown Actor'
s_unknown_actor == <<"U", "n", "k", "n", "o", "w", "n", " ", "A", "c", "t", "o", "r">>
\* text: 'Unknown Outcome'
s_unknown_outcome == <<"U", "n", "k", "n", "o", "w", "n", " ", "O", "u", "t", "c", "o", "m", "e">>
\* text: 'No scene summaries are available yet.'
s_no_summaries == <<"N", "o", " ", "s", "c", "e", "n", "e", " ", "s", "u", "m", "m", "a", "r", "i", "e", "s", " ", "a", "r", "e", " ", "a", "v", "a", "i", "l", "a", "b", "l", "e", " ", "y", "e", "t", ".">>
\* text: 'Summary of Scene '
s_summary_of_scene == <<"S", "u", "m", "m", "a", "r", "y", " ", "o", "f", " ", "S", "c", "e", "n", "e", " ">>
\* text: ':\n'
s_colon_newline == <<":", "\n">>
\* text: '\n'
s_newline == <<"\n">>
\* text: '\n\n---\n\n'
s_separator == <<"\n", "\n", "-", "-", "-", "\n", "\n">>
\* text: '(Unable to determine precise perception for '
s_unable_to_determine == <<"(", "U", "n", "a", "b", "l", "e", " ", "t", "o", " ", "d", "e", "t", "e", "r", "m", "i", "n", "e", " ", "p", "r", "e", "c", "i", "s", "e", " ", "p", "e", "r", "c", "e", "p", "t", "i", "o", "n", " ", "f", "o", "r", " ">>
\* text: '(Standard perception for '
s_standard_perception == <<"(", "S", "t", "a", "n", "d", "a", "r", "d", " ", "p", "e", "r", "c", "e", "p", "t", "i", "o", "n", " ", "f", "o", "r", " ">>
\* text: '): '
s_paren_colon == <<")", ":", " ">>
\* text: '_turn_'
s_turn_infix == <<"_", "t", "u", "r", "n", "_">>
\* text: 'I heard a twig snap.'
r_i_heard == <<"I", " ", "h", "e", "a", "r", "d", " ", "a", " ", "t", "w", "i", "g", " ", "s", "n", "a", "p", ".">>
\* text: 'wave'
a_wave == <<"w", "a", "v", "e">>
\* text: 'help'
a_help == <<"h", "e", "l", "p">>
\* text: 'Al nods.'
o_nods == <<"A", "l", " ", "n", "o", "d", "s", ".">>
\* text: 'Al helps Bo carry the heavy chest.'
o_helps == <<"A", "l", " ", "h", "e", "l", "p", "s", " ", "B", "o", " ", "c", "a", "r", "r", "y", " ", "t", "h", "e", " ", "h", "e", "a", "v", "y", " ", "c", "h", "e", "s", "t", ".">>
\* text: ' "Al nods." '
r_quoted_nods == <<" ", "\"", "A", "l", " ", "n", "o", "d", "s", ".", "\"", " ">>
k_helps == <<"h", "e", "l", "p", "s">>
k_thanks == <<"t", "h", "a", "n", "k", "s">>
k_praises == <<"p", "r", "a", "i", "s", "e", "s">>
k_agrees_with == <<"a", "g", "r", "e", "e", "s", " ", "w", "i", "t", "h">>
k_comforts == <<"c", "o", "m", "f", "o", "r", "t", "s">>
k_saves == <<"s", "a", "v", "e", "s">>
k_attacks == <<"a", "t", "t", "a", "c", "k", "s">>
k_insults == <<"i", "n", "s", "u", "l", "t", "s">>
k_threatens == <<"t", "h", "r", "e", "a", "t", "e", "n", "s">>
k_accuses == <<"a", "c", "c", "u", "s", "e", "s">>
k_ignores == <<"i", "g", "n", "o", "r", "e", "s">>
k_betrays == <<"b", "e", "t", "r", "a", "y", "s">>
k_disagrees_with == <<"d", "i", "s", "a", "g", "r", "e", "e", "s", " ", "w", "i", "t", "h">>
\* text: 'Something happens.'
e_something_happens == <<"S", "o", "m", "e", "t", "h", "i", "n", "g", " ", "h", "a", "p", "p", "e", "n", "s", ".">>
\* text: 'Something unexpected happens.'
e_something_unexpected == <<"S", "o", "m", "e", "t", "h", "i", "n", "g", " ", "u", "n", "e", "x", "p", "e", "c", "t", "e", "d", " ", "h", "a", "p", "p", "e", "n", "s", ".">>
\* text: 'The environment shifts slightly, creating an unusual atmosphere.'
e_environment_shifts == <<"T", "h", "e", " ", "e", "n", "v", "i", "r", "o", "n", "m", "e", "n", "t", " ", "s", "h", "i", "f", "t", "s", " ", "s", "l", "i", "g", "h", "t", "l", "y", ",", " ", "c", "r", "e", "a", "t", "i", "n", "g", " ", "a", "n", " ", "u", "n", "u", "s", "u", "a", "l", " ", "a", "t", "m", "o", "s", "p", "h", "e", "r", "e", ".">>
\* text: 'A cool breeze blows through the area.'
e_fallback_1 == <<"A", " ", "c", "o", "o", "l", " ", "b", "r", "e", "e", "z", "e", " ", "b", "l", "o", "w", "s", " ", "t", "h", "r", "o", "u", "g", "h", " ", "t", "h", "e", " ", "a", "r", "e", "a", ".">>
\* text: 'Distant sounds can be heard from somewhere nearby.'
e_fallback_2 == <<"D", "i", "s", "t", "a", "n", "t", " ", "s", "o", "u", "n", "d", "s", " ", "c", "a", "n", " ", "b", "e", " ", "h", "e", "a", "r", "d", " ", "f", "r", "o", "m", " ", "s", "o", "m", "e", "w", "h", "e", "r", "e", " ", "n", "e", "a", "r", "b", "y", ".">>
\* text: 'The lighting changes subtly, casting new shadows.'
e_fallback_3 == <<"T", "h", "e", " ", "l", "i", "g", "h", "t", "i", "n", "g", " ", "c", "h", "a", "n", "g", "e", "s", " ", "s", "u", "b", "t", "l", "y", ",", " ", "c", "a", "s", "t", "i", "n", "g", " ", "n", "e", "w", " ", "s", "h", "a", "d", "o", "w", "s", ".">>
\* text: "There's a momentary silence that feels significant."
e_fallback_4 == <<"T", "h", "e", "r", "e", "'", "s", " ", "a", " ", "m", "o", "m", "e", "n", "t", "a", "r", "y", " ", "s", "i", "l", "e", "n", "c", "e", " ", "t", "h", "a", "t", " ", "f", "e", "e", "l", "s", " ", "s", "i", "g", "n", "i", "f", "i", "c", "a", "n", "t", ".">>
\* text: 'Something catches the eye at the edge of vision, then vanishes.'
e_fallback_5 == <<"S", "o", "m", "e", "t", "h", "i", "n", "g", " ", "c", "a", "t", "c", "h", "e", "s", " ", "t", "h", "e", " ", "e", "y", "e", " ", "a", "t", " ", "t", "h", "e", " ", "e", "d", "g", "e", " ", "o", "f", " ", "v", "i", "s", "i", "o", "n", ",", " ", "t", "h", "e", "n", " ", "v", "a", "n", "i", "s", "h", "e", "s", ".">>
\* text: 'A sudden storm rolls in.'
d_storm == <<"A", " ", "s", "u", "d", "d", "e", "n", " ", "s", "t", "o", "r", "m", " ", "r", "o", "l", "l", "s", " ", "i", "n", ".">>
\* text: 'A glowing artifact is found.'
d_artifact == <<"A", " ", "g", "l", "o", "w", "i", "n", "g", " ", "a", "r", "t", "i", "f", "a", "c", "t", " ", "i", "s", " ", "f", "o", "u", "n", "d", ".">>
\* text: '"A floorboard creaks."'
r_creak == <<"\"", "A", " ", "f", "l", "o", "o", "r", "b", "o", "a", "r", "d", " ", "c", "r", "e", "a", "k", "s", ".", "\"">>
\* text: ' "" '
r_only_quotes == <<" ", "\"", "\"", " ">>
\* text: 'al'
r_pick_al == <<"a", "l">>
\* text: 'I think BO should act.'
r_pick_bo_long == <<"I", " ", "t", "h", "i", "n", "k", " ", "B", "O", " ", "s", "h", "o", "u", "l", "d", " ", "a", "c", "t", ".">>
\* text: 'Alma'
r_pick_alma == <<"A", "l", "m", "a">>
\* text: 'Someone else'
r_pick_none == <<"S", "o", "m", "e", "o", "n", "e", " ", "e", "l", "s", "e">>

----------------------------------------------------------------------------
(* Python text primitives *)

UpperCase == <<"A","B","C","D","E","F","G","H","I","J","K","L","M",
               "N","O","P","Q","R","S","T","U","V","W","X","Y","Z">>
LowerCase == <<"a","b","c","d","e","f","g","h","i","j","k","l","m",
               "n","o","p","q","r","s","t","u","v","w","x","y","z">>
DigitChars == <<"0","1","2","3","4","5","6","7","8","9">>

Min(a, b) == IF a <= b THEN a ELSE b
Max(a, b) == IF a >= b THEN a ELSE b
Abs(a) == IF a < 0 THEN -a ELSE a
Range(f) == {f[i] : i \in DOMAIN f}

\* str.lower of one character
LowerCh(c) ==
    IF \E i \in 1..26 : UpperCase[i] = c
    THEN LowerCase[CHOOSE i \in 1..26 : UpperCase[i] = c]
    ELSE c

\* str.lower
Lower(s) == [i \in 1..Len(s) |-> LowerCh(s[i])]

IsSpace(c) == c \in {" ", "\n", "\t"}

\* s.strip(chars): drop leading and trailing characters of the set
StripChars(s, cs) ==
    LET keep == {i \in 1..Len(s) : s[i] \notin cs}
    IN  IF keep = {} THEN <<>>
        ELSE LET lo == CHOOSE i \in keep : \A j \in keep : i <= j
                 hi == CHOOSE i \in keep : \A j \in keep : i >= j
             IN  SubSeq(s, lo, hi)

\* s.strip()
Strip(s) == StripChars(s, {" ", "\n", "\t"})

\* s.startswith(p)
StartsWith(s, p) == Len(p) <= Len(s) /\ SubSeq(s, 1, Len(p)) = p

\* sub in s
Contains(s, sub) ==
    \E i \in 1..(Len(s) - Len(sub) + 1) : SubSeq(s, i, i + Len(sub) - 1) = sub

\* s[:n]
Prefix(s, n) == SubSeq(s, 1, Min(n, Len(s)))

\* xs[-n:] for n >= 1
LastN(xs, n) == SubSeq(xs, Max(1, Len(xs) - n + 1), Len(xs))

\* len(s.split()): number of maximal runs of non-whitespace
WordCount(s) ==
    Cardinality({i \in 1..Len(s) :
                    /\ ~IsSpace(s[i])
                    /\ (i = 1 \/ IsSpace(s[i-1]))})

RECURSIVE IntToStr(_)
\* str(n) for n >= 0
IntToStr(n) ==
    IF n < 10 THEN <<DigitChars[n + 1]>>
    ELSE IntToStr(n \div 10) \o <<DigitChars[(n % 10) + 1]>>

IsDigits(s) == Len(s) > 0 /\ \A i \in 1..Len(s) : \E d \in 1..10 : DigitChars[d] = s[i]

RECURSIVE ParseInt(_)
\* int(s) for a text of decimal digits
ParseInt(s) ==
    IF Len(s) = 0 THEN 0
    ELSE 10 * ParseInt(SubSeq(s, 1, Len(s) - 1))
         + ((CHOOSE d \in 1..10 : DigitChars[d] = s[Len(s)]) - 1)

\* s.split('_')[-1]
LastSegment(s) ==
    LET us == {i \in 1..Len(s) : s[i] = "_"}
    IN  IF us = {} THEN s
        ELSE SubSeq(s, (CHOOSE i \in us : \A j \in us : i >= j) + 1, Len(s))

\* f"scene_{scene_number}"
SceneId(scene_number) == s_scene_prefix \o IntToStr(scene_number)

\* int(current_scene_id.split('_')[-1])
SceneNumberOf(current_scene_id) == ParseInt(LastSegment(current_scene_id))

----------------------------------------------------------------------------
(* Data model *)

\* MoodVector(): components in hundredths
MoodVector == [joy |-> 0, fear |-> 0, anger |-> 0, sadness |-> 0,
               surprise |-> 0, trust |-> 0]

\* a reply of the generation service to one call: a text, or a failure
\* (transport error, timeout, or a value that is not a text)
LlmFail == [ok |-> FALSE, text |-> <<>>]
LlmText(t) == [ok |-> TRUE, text |-> t]

\* [beat for beat in script_beats if beat.get('scene_id') == scene_number]
RECURSIVE SelectBeats(_, _, _)
SelectBeats(beats, scene_number, i) ==
    IF i > Len(beats) THEN <<>>
    ELSE (IF beats[i].scene_id = scene_number THEN <<beats[i]>> ELSE <<>>)
         \o SelectBeats(beats, scene_number, i + 1)

\* WorldAgent.__init__: character_states maps each id of character_ids (the
\* dict's key order) to its state; the template and the world state hold the
\* same dict object, so one field stands for both
WorldAgentNew(world_definition, character_ids, character_states) ==
    [ world_definition |-> world_definition,
      max_scene_turns |-> max_scene_turns,
      stagnation_threshold |-> stagnation_detection_threshold,
      llm_event_injection_override_chance |-> llm_event_injection_override_chance,
      fallback_event_injection_chance |-> fallback_event_injection_chance,
      recent_events_history_limit |-> recent_events_history_limit,
      world_state |->
        [ current_scene_id |-> SceneId(1),
          turn_number |-> 0,
          time_of_day |-> "morning",
          active_characters |-> character_ids,
          character_states |-> character_states,
          recent_events_summary |-> <<>> ],
      previous_token_counts |-> <<>>,
      llm_interface |-> TRUE,
      script_mode |-> FALSE,
      current_beat |-> <<>>,
      completed_beats |-> {} ]

\* init_scene(scene_number=None); NoArg stands for the omitted argument
NoArg == -1

\* variant of init_scene that carries the recent events over to the new scene
init_scene_KeepsRecentEvents(w, scene_number_arg) ==
    LET id == w.world_state.current_scene_id
        scene_number ==
            IF scene_number_arg = NoArg
            THEN (IF IsDigits(LastSegment(id)) THEN SceneNumberOf(id) + 1 ELSE 1)
            ELSE scene_number_arg
        scene_beats == SelectBeats(w.world_definition.script_beats, scene_number, 1)
    IN  [w EXCEPT
           !.world_state.current_scene_id = SceneId(scene_number),
           !.world_state.turn_number = 0,
           !.previous_token_counts = <<>>,
           !.current_beat =
               IF w.script_mode
               THEN (IF scene_beats # <<>> THEN <<scene_beats[1]>> ELSE <<>>)
               ELSE @ ]

init_scene(w, scene_number_arg) ==
    LET id == w.world_state.current_scene_id
        scene_number ==
            IF scene_number_arg = NoArg
            THEN (IF IsDigits(LastSegment(id)) THEN SceneNumberOf(id) + 1 ELSE 1)
            ELSE scene_number_arg
        scene_beats == SelectBeats(w.world_definition.script_beats, scene_number, 1)
    IN  [w EXCEPT
           !.world_state.current_scene_id = SceneId(scene_number),
           !.world_state.turn_number = 0,
           !.previous_token_counts = <<>>,
           !.world_state.recent_events_summary = <<>>,
           !.current_beat =
               IF w.script_mode
               THEN (IF scene_beats # <<>> THEN <<scene_beats[1]>> ELSE <<>>)
               ELSE @ ]

\* the info dict returned next to a POV name
PovInfo(persona, goals, current_mood) ==
    [persona |-> persona, goals |-> goals, current_mood |-> current_mood]

NoInfo == PovInfo("", <<>>, MoodVector)

\* what a WorldAgent method hands back: ret for a boolean result, out for a
\* text result (empty for None), info for the POV info; wa is the agent after
\* the call, rel the relationship store after the call (only apply_plan sets
\* it), consulted tells whether the generation service was called, raised
\* whether the call ended in an exception
Result(ret, out, w, consulted, raised) ==
    [ret |-> ret, out |-> out, info |-> NoInfo, wa |-> w, rel |-> <<>>,
     consulted |-> consulted, raised |-> raised]

\* response.startswith('yes') or 'yes' in response[:10], on the stripped,
\* lower-cased reply
SaysYes(text) ==
    LET response == Lower(Strip(text))
    IN  StartsWith(response, s_yes) \/ Contains(Prefix(response, 10), s_yes)

\* variant of ScriptedSceneDone that forgets the completed set: the scene is
\* done only when it has no beat at all
ScriptedSceneDone_IgnoresCompleted(w) ==
    LET scene_number == SceneNumberOf(w.world_state.current_scene_id)
        beats == w.world_definition.script_beats
    IN  /\ w.script_mode
        /\ w.current_beat = <<>>
        /\ beats # <<>>
        /\ ~ \E i \in 1..Len(beats) : beats[i].scene_id = scene_number

\* the scripted rule of judge_scene_end: all beats of the scene completed
ScriptedSceneDone(w) ==
    LET scene_number == SceneNumberOf(w.world_state.current_scene_id)
        beats == w.world_definition.script_beats
    IN  /\ w.script_mode
        /\ w.current_beat = <<>>
        /\ beats # <<>>
        /\ ~ \E i \in 1..Len(beats) :
               /\ beats[i].scene_id = scene_number
               /\ beats[i].beat_id \notin w.completed_beats

\* variant of StagnationFallback that keeps the stagnation list on a
\* significant change instead of emptying it
StagnationFallback_NoReset(w, scene_log) ==
    LET last3 == LastN(scene_log, 3)
        recent_tokens == [i \in 1..Len(last3) |-> WordCount(last3[i].outcome)]
        token_diffs == [i \in 1..(Len(recent_tokens) - 1) |->
                           Abs(recent_tokens[i + 1] - recent_tokens[i])]
    IN  IF \A i \in 1..Len(recent_tokens) : recent_tokens[i] < 5
        THEN Result(TRUE, <<>>, w, TRUE, FALSE)
        ELSE IF \A i \in 1..Len(token_diffs) : token_diffs[i] < 3
             THEN LET w2 == [w EXCEPT !.previous_token_counts = Append(@, token_diffs)]
                  IN  Result(Len(w2.previous_token_counts) >= w.stagnation_threshold,
                             <<>>, w2, TRUE, FALSE)
             ELSE Result(FALSE, <<>>, w, TRUE, FALSE)

\* the except-branch of judge_scene_end: stagnation detection
StagnationFallback(w, scene_log) ==
    LET last3 == LastN(scene_log, 3)
        recent_tokens == [i \in 1..Len(last3) |-> WordCount(last3[i].outcome)]
        token_diffs == [i \in 1..(Len(recent_tokens) - 1) |->
                           Abs(recent_tokens[i + 1] - recent_tokens[i])]
    IN  IF Len(scene_log) >= 3
        THEN IF \A i \in 1..Len(recent_tokens) : recent_tokens[i] < 5
             THEN Result(TRUE, <<>>, w, TRUE, FALSE)
             ELSE IF \A i \in 1..Len(token_diffs) : token_diffs[i] < 3
                  THEN LET w2 == [w EXCEPT !.previous_token_counts =
                                               Append(@, token_diffs)]
                       IN  Result(Len(w2.previous_token_counts) >= w.stagnation_threshold,
                                  <<>>, w2, TRUE, FALSE)
                  ELSE Result(FALSE, <<>>,
                              [w EXCEPT !.previous_token_counts = <<>>], TRUE, FALSE)
        ELSE Result(FALSE, <<>>, w, TRUE, FALSE)

\* variant of judge_scene_end that tests the log length before the turn cap
judge_scene_end_ShortLogFirst(w, scene_log, llm) ==
    IF ScriptedSceneDone(w) THEN Result(TRUE, <<>>, w, FALSE, FALSE)
    ELSE IF Len(scene_log) < 3 THEN Result(FALSE, <<>>, w, FALSE, FALSE)
    ELSE IF w.world_state.turn_number >= w.max_scene_turns
         THEN Result(TRUE, <<>>, w, FALSE, FALSE)
    ELSE IF llm.ok THEN Result(SaysYes(llm.text), <<>>, w, TRUE, FALSE)
    ELSE StagnationFallback(w, scene_log)

\* variant of judge_scene_end that continues only below 2 log entries
judge_scene_end_TwoEntries(w, scene_log, llm) ==
    IF ScriptedSceneDone(w) THEN Result(TRUE, <<>>, w, FALSE, FALSE)
    ELSE IF w.world_state.turn_number >= w.max_scene_turns
         THEN Result(TRUE, <<>>, w, FALSE, FALSE)
    ELSE IF Len(scene_log) < 2 THEN Result(FALSE, <<>>, w, FALSE, FALSE)
    ELSE IF llm.ok THEN Result(SaysYes(llm.text), <<>>, w, TRUE, FALSE)
    ELSE StagnationFallback(w, scene_log)

\* judge_scene_end(scene_log); llm is the service's reply to the one call made
judge_scene_end(w, scene_log, llm) ==
    IF ScriptedSceneDone(w) THEN Result(TRUE, <<>>, w, FALSE, FALSE)
    ELSE IF w.world_state.turn_number >= w.max_scene_turns
         THEN Result(TRUE, <<>>, w, FALSE, FALSE)
    ELSE IF Len(scene_log) < 3 THEN Result(FALSE, <<>>, w, FALSE, FALSE)
    ELSE IF llm.ok THEN Result(SaysYes(llm.text), <<>>, w, TRUE, FALSE)
    ELSE StagnationFallback(w, scene_log)

----------------------------------------------------------------------------
(* Actor and POV selection *)

\* index of the first element of xs satisfying a membership test, 0 if none
FirstIndexIn(xs, good) ==
    IF \E i \in 1..Len(xs) : xs[i] \in good
    THEN CHOOSE i \in 1..Len(xs) : xs[i] \in good /\ \A j \in 1..(i-1) : xs[j] \notin good
    ELSE 0

\* the exact-then-substring matching of a reply against the active names;
\* the empty text when no name matches
MatchName(active_chars, reply) ==
    LET response == Strip(reply)
        exact == {c \in Range(active_chars) : Lower(c) = Lower(response)}
        partial == {c \in Range(active_chars) : Contains(Lower(response), Lower(c))}
        ie == FirstIndexIn(active_chars, exact)
        ip == FirstIndexIn(active_chars, partial)
    IN  IF ie # 0 THEN active_chars[ie]
        ELSE IF ip # 0 THEN active_chars[ip]
        ELSE <<>>

\* char_data_template.activity_coefficient if char_data_template else 1.0
ActivityWeight(w, char_name) ==
    IF char_name \in DOMAIN w.world_state.character_states
    THEN w.world_state.character_states[char_name].activity_coefficient
    ELSE 10

RECURSIVE SumWeights(_, _, _)
\* sum of the weights of active_chars[1..n]
SumWeights(w, active_chars, n) ==
    IF n = 0 THEN 0
    ELSE SumWeights(w, active_chars, n - 1) + ActivityWeight(w, active_chars[n])

\* the roulette wheel: r = rn / RandomDen; raised when the weights sum to 0
\* (v/total_weight divides by zero)
RouletteRaises(w, active_chars) == SumWeights(w, active_chars, Len(active_chars)) = 0

RoulettePick(w, active_chars, rn) ==
    LET total_weight == SumWeights(w, active_chars, Len(active_chars))
        \* r <= cumulative, with cumulative = SumWeights(..i) / total_weight
        hit == {i \in 1..Len(active_chars) :
                   rn * total_weight <= SumWeights(w, active_chars, i) * RandomDen}
    IN  IF hit = {} THEN active_chars[1]
        ELSE active_chars[CHOOSE i \in hit : \A j \in hit : i <= j]

\* decide_next_actor(); llm is the service's reply, rn the random draw
decide_next_actor(w, llm, rn) ==
    LET active_chars == w.world_state.active_characters
        required_actor == IF w.current_beat # <<>>
                          THEN w.current_beat[1].required_actor ELSE <<>>
        selected_actor == IF llm.ok THEN MatchName(active_chars, llm.text) ELSE <<>>
    IN  IF active_chars = <<>> THEN Result(FALSE, <<>>, w, FALSE, FALSE)
        ELSE IF /\ w.script_mode
                /\ w.current_beat # <<>>
                /\ required_actor # <<>>
                /\ required_actor \in Range(active_chars)
             THEN Result(FALSE, required_actor, w, FALSE, FALSE)
        ELSE IF selected_actor # <<>>
             THEN Result(FALSE, selected_actor, w, TRUE, FALSE)
        ELSE IF RouletteRaises(w, active_chars)
             THEN Result(FALSE, <<>>, w, TRUE, TRUE)
        ELSE Result(FALSE, RoulettePick(w, active_chars, rn), w, TRUE, FALSE)

\* the pov_info dict built for the selected character
PovInfoOf(w, selected_character) ==
    LET cs == w.world_state.character_states
    IN  IF selected_character \in DOMAIN cs
        THEN PovInfo(cs[selected_character].persona, cs[selected_character].goals,
                     cs[selected_character].current_mood)
        ELSE PovInfo("", <<>>, MoodVector)

NarratorSentinel(w, consulted) ==
    [Result(FALSE, s_Narrator, w, consulted, FALSE)
        EXCEPT !.info = PovInfo("Objective observer", <<>>, MoodVector)]

\* variant of choose_pov_character_for_scene that answers with the sentinel
\* when the service fails
choose_pov_character_for_scene_NarratorOnFailure(w, llm, pick) ==
    LET active_chars == w.world_state.active_characters
        matched == MatchName(active_chars, llm.text)
        selected_character == IF matched # <<>> THEN matched ELSE active_chars[1]
    IN  IF active_chars = <<>> THEN NarratorSentinel(w, FALSE)
        ELSE IF ~llm.ok THEN NarratorSentinel(w, TRUE)
        ELSE [Result(FALSE, selected_character, w, TRUE, FALSE)
                 EXCEPT !.info = PovInfoOf(w, selected_character)]

\* variant of choose_pov_character_for_scene that draws at random as well
\* when the answer matches nobody
choose_pov_character_for_scene_RandomOnNoMatch(w, llm, pick) ==
    LET active_chars == w.world_state.active_characters
        matched == MatchName(active_chars, llm.text)
        selected_character ==
            IF llm.ok /\ matched # <<>> THEN matched ELSE active_chars[pick]
    IN  IF active_chars = <<>> THEN NarratorSentinel(w, FALSE)
        ELSE [Result(FALSE, selected_character, w, TRUE, FALSE)
                 EXCEPT !.info = PovInfoOf(w, selected_character)]

\* choose_pov_character_for_scene(); pick is the index random.choice draws
choose_pov_character_for_scene(w, llm, pick) ==
    LET active_chars == w.world_state.active_characters
        matched == MatchName(active_chars, llm.text)
        selected_character ==
            IF llm.ok
            THEN (IF matched # <<>> THEN matched ELSE active_chars[1])
            ELSE active_chars[pick]
    IN  IF active_chars = <<>> THEN NarratorSentinel(w, FALSE)
        ELSE [Result(FALSE, selected_character, w, TRUE, FALSE)
                 EXCEPT !.info = PovInfoOf(w, selected_character)]

----------------------------------------------------------------------------
(* Relationship store (relationship_manager.py); trust and affinity in      *)
(* thousandths                                                             *)

\* variant of DefaultRelationship that starts a pair without trust
DefaultRelationship_Distrust == [trust |-> 0, affinity |-> 0, status |-> "neutral"]

\* RelationshipState()
DefaultRelationship == [trust |-> 500, affinity |-> 0, status |-> "neutral"]

\* variant of relationship_key_raises that accepts a pair of equal ids
relationship_key_raises_Never(char_a_id, char_b_id) == FALSE

\* _get_relationship_key raises ValueError when the two ids are equal
relationship_key_raises(char_a_id, char_b_id) == char_a_id = char_b_id

\* variant of RelationshipKey that keeps the order of the two ids
RelationshipKey_Ordered(char_a_id, char_b_id) == <<char_a_id, char_b_id>>

\* _get_relationship_key: frozenset of the two ids (raises when they are equal)
RelationshipKey(char_a_id, char_b_id) == {char_a_id, char_b_id}

\* get_state
get_state(rel, char_a_id, char_b_id) ==
    LET key == RelationshipKey(char_a_id, char_b_id)
    IN  IF key \in DOMAIN rel THEN rel[key] ELSE DefaultRelationship

\* update_state: the store after the call
update_state(rel, char_a_id, char_b_id, new_state) ==
    LET key == RelationshipKey(char_a_id, char_b_id)
    IN  [k \in (DOMAIN rel) \cup {key} |-> IF k = key THEN new_state ELSE rel[k]]

\* variant of adjust_state that stores the sums as they are
adjust_state_NoClamp(rel, char_a_id, char_b_id, trust_delta, affinity_delta, new_status) ==
    LET key == RelationshipKey(char_a_id, char_b_id)
        current_state == get_state(rel, char_a_id, char_b_id)
        updated_rel_state ==
            [trust |-> current_state.trust + trust_delta,
             affinity |-> current_state.affinity + affinity_delta,
             status |-> IF new_status # "" THEN new_status ELSE current_state.status]
    IN  [k \in (DOMAIN rel) \cup {key} |->
            IF k = key THEN updated_rel_state ELSE rel[k]]

\* variant of adjust_state that clamps affinity to the range of trust
adjust_state_AffinityAsTrust(rel, char_a_id, char_b_id, trust_delta, affinity_delta, new_status) ==
    LET key == RelationshipKey(char_a_id, char_b_id)
        current_state == get_state(rel, char_a_id, char_b_id)
        updated_rel_state ==
            [trust |-> Min(1000, Max(0, current_state.trust + trust_delta)),
             affinity |-> Min(1000, Max(0, current_state.affinity + affinity_delta)),
             status |-> IF new_status # "" THEN new_status ELSE current_state.status]
    IN  [k \in (DOMAIN rel) \cup {key} |->
            IF k = key THEN updated_rel_state ELSE rel[k]]

\* adjust_state: the store after the call; new_status "" stands for None
adjust_state(rel, char_a_id, char_b_id, trust_delta, affinity_delta, new_status) ==
    LET key == RelationshipKey(char_a_id, char_b_id)
        current_state == get_state(rel, char_a_id, char_b_id)
        updated_rel_state ==
            [trust |-> Min(1000, Max(0, current_state.trust + trust_delta)),
             affinity |-> Min(1000, Max(-1000, current_state.affinity + affinity_delta)),
             status |-> IF new_status # "" THEN new_status ELSE current_state.status]
    IN  [k \in (DOMAIN rel) \cup {key} |->
            IF k = key THEN updated_rel_state ELSE rel[k]]

----------------------------------------------------------------------------
(* MemoryManager (memory.py).  An entry's timestamp is its rank in the      *)
(* order of creation.                                                       *)

\* self.stm[actor_name].pop(0) once the list is longer than this (memory.py:58)
stm_capacity == 10

\* MemoryManager()
MemoryManagerNew == [stm |-> <<>>, ltm_store |-> <<>>, scene_summaries |-> <<>>]

\* MemoryEntry(timestamp, actor_name, event_description, mood_at_encoding)
MemoryEntry(timestamp, actor_name, event_description, mood_at_encoding) ==
    [timestamp |-> timestamp, actor_name |-> actor_name,
     event_description |-> event_description, mood_at_encoding |-> mood_at_encoding]

\* xs.pop(0)
Pop0(xs) == SubSeq(xs, 2, Len(xs))

\* variant of remember that evicts the newest entry of a full short-term list
remember_EvictsNewest(mm, actor_name, event_description, mood_at_encoding) ==
    LET entry == MemoryEntry(Len(mm.ltm_store) + 1, actor_name, event_description,
                             mood_at_encoding)
        held == IF actor_name \in DOMAIN mm.stm THEN mm.stm[actor_name] ELSE <<>>
        grown == Append(held, entry)
        kept == IF Len(grown) > stm_capacity THEN SubSeq(grown, 1, Len(grown) - 1)
                ELSE grown
    IN  [mm EXCEPT
           !.ltm_store = Append(@, entry),
           !.stm = [a \in (DOMAIN mm.stm) \cup {actor_name} |->
                       IF a = actor_name THEN kept ELSE mm.stm[a]]]

\* remember(actor_name, event_description, mood_at_encoding): the manager
\* after the call (the entry returned is the last of ltm_store)
remember(mm, actor_name, event_description, mood_at_encoding) ==
    LET entry == MemoryEntry(Len(mm.ltm_store) + 1, actor_name, event_description,
                             mood_at_encoding)
        held == IF actor_name \in DOMAIN mm.stm THEN mm.stm[actor_name] ELSE <<>>
        grown == Append(held, entry)
        kept == IF Len(grown) > stm_capacity THEN Pop0(grown) ELSE grown
    IN  [mm EXCEPT
           !.ltm_store = Append(@, entry),
           !.stm = [a \in (DOMAIN mm.stm) \cup {actor_name} |->
                       IF a = actor_name THEN kept ELSE mm.stm[a]]]

\* variant of clear_stm_for_actor that also drops the actor's entries from
\* the long-term log
clear_stm_for_actor_ForgetsLog(mm, actor_name) ==
    IF actor_name \in DOMAIN mm.stm
    THEN [mm EXCEPT !.stm[actor_name] = <<>>,
                    !.ltm_store = SelectSeq(@, LAMBDA e : e.actor_name # actor_name)]
    ELSE mm

\* clear_stm_for_actor(actor_name)
clear_stm_for_actor(mm, actor_name) ==
    IF actor_name \in DOMAIN mm.stm THEN [mm EXCEPT !.stm[actor_name] = <<>>] ELSE mm

\* clear_all_stm()
clear_all_stm(mm) == [mm EXCEPT !.stm = [a \in DOMAIN mm.stm |-> <<>>]]

\* reset_memory()
reset_memory(mm) == [ltm_store |-> <<>>, stm |-> <<>>, scene_summaries |-> <<>>]

\* reversed(xs)
Reversed(xs) == [i \in 1..Len(xs) |-> xs[Len(xs) + 1 - i]]

\* [x for x in xs if keep(x)] for the entries of one actor
RECURSIVE EntriesOf(_, _)
EntriesOf(xs, actor_name) ==
    IF xs = <<>> THEN <<>>
    ELSE (IF Head(xs).actor_name = actor_name THEN <<Head(xs)>> ELSE <<>>)
            \o EntriesOf(Tail(xs), actor_name)

\* variant of retrieve that reads the log oldest first
retrieve_OldestFirst(mm, actor_name, max_results) ==
    Prefix(EntriesOf(mm.ltm_store, actor_name), max_results)

\* retrieve(actor_name, max_results=...), for max_results >= 0
retrieve(mm, actor_name, max_results) ==
    Prefix(EntriesOf(Reversed(mm.ltm_store), actor_name), max_results)

RECURSIVE JoinWith(_, _)
\* variant of JoinWith that leaves the separator out
JoinWith_NoSeparator(parts, sep) ==
    IF parts = <<>> THEN <<>>
    ELSE IF Len(parts) = 1 THEN parts[1]
    ELSE parts[1] \o JoinWith(Tail(parts), sep)

\* sep.join(parts)
JoinWith(parts, sep) ==
    IF parts = <<>> THEN <<>>
    ELSE IF Len(parts) = 1 THEN parts[1]
    ELSE parts[1] \o sep \o JoinWith(Tail(parts), sep)

\* log_entry.get(key, default)
Get(log_entry, key, default) ==
    IF key \in DOMAIN log_entry THEN log_entry[key] ELSE default

\* f"Event by {actor}: {outcome}"
SummaryLine(log_entry) ==
    s_event_by \o Get(log_entry, "actor", s_unknown_actor)
        \o s_colon \o Get(log_entry, "outcome", s_unknown_outcome)

\* the summary text of a non-empty scene log
SummaryOf(scene_log) ==
    JoinWith([i \in 1..Len(scene_log) |-> SummaryLine(scene_log[i])], s_newline)

\* variant of summarise_scene that keeps a summary already stored
summarise_scene_KeepsFirst(mm, scene_number, scene_log) ==
    IF scene_log = <<>> THEN [ret |-> <<>>, mm |-> mm]
    ELSE [ret |-> SummaryOf(scene_log),
          mm |-> [mm EXCEPT !.scene_summaries =
                    [n \in (DOMAIN @) \cup {scene_number} |->
                        IF n \in DOMAIN @ THEN @[n] ELSE SummaryOf(scene_log)]]]

\* summarise_scene(scene_number, scene_log): the text returned (empty for
\* None) and the manager after the call
summarise_scene(mm, scene_number, scene_log) ==
    IF scene_log = <<>> THEN [ret |-> <<>>, mm |-> mm]
    ELSE [ret |-> SummaryOf(scene_log),
          mm |-> [mm EXCEPT !.scene_summaries =
                    [n \in (DOMAIN @) \cup {scene_number} |->
                        IF n = scene_number THEN SummaryOf(scene_log) ELSE @[n]]]]

\* get_scene_summary(scene_number): the text, empty for None
get_scene_summary(mm, scene_number) ==
    IF scene_number \in DOMAIN mm.scene_summaries
    THEN mm.scene_summaries[scene_number] ELSE <<>>

\* sorted(keys) for a set of integers
RECURSIVE SortedSeq(_)
SortedSeq(keys) ==
    IF keys = {} THEN <<>>
    ELSE LET least == CHOOSE k \in keys : \A j \in keys : k <= j
         IN  <<least>> \o SortedSeq(keys \ {least})

\* f"Summary of Scene {n}:\n{summary}"
TaggedSummary(scene_number, summary) ==
    s_summary_of_scene \o IntToStr(scene_number) \o s_colon_newline \o summary

\* get_recent_scene_summaries(count=3), for count >= 0: the method is
\* called by main.py:188 and exercised by test_memory_manager_v1.py:29-71;
\* its body is not part of memory.py
get_recent_scene_summaries(mm, count) ==
    IF count = 0 \/ DOMAIN mm.scene_summaries = {} THEN s_no_summaries
    ELSE LET chosen == LastN(SortedSeq(DOMAIN mm.scene_summaries), count)
         IN  JoinWith([i \in 1..Len(chosen) |->
                         TaggedSummary(chosen[i], mm.scene_summaries[chosen[i]])],
                      s_separator)

----------------------------------------------------------------------------
(* PerspectiveFilter.get_observers (perspective_filter.py).  The answer of   *)
(* the language service is modelled by what json.loads makes of it.         *)

\* generate_response_sync raised
ObserverFailure == [kind |-> "failure", observers |-> <<>>]
\* json.loads raised JSONDecodeError
ObserverInvalid == [kind |-> "invalid", observers |-> <<>>]
\* valid JSON that is not a list
ObserverNotList == [kind |-> "scalar", observers |-> <<>>]
\* a list with an element that is not a string
ObserverMixedList == [kind |-> "mixed", observers |-> <<>>]
\* a list of strings
ObserverList(ids) == [kind |-> "list", observers |-> ids]

\* event_location_id omitted (None); an empty id is as falsy as None
NoLocation == ""

\* [obs_id for obs_id in observers if obs_id in character_states]
RECURSIVE ValidObservers(_, _)
ValidObservers(observers, character_states) ==
    IF observers = <<>> THEN <<>>
    ELSE (IF Head(observers) \in DOMAIN character_states
          THEN <<Head(observers)>> ELSE <<>>)
            \o ValidObservers(Tail(observers), character_states)

\* the characters at the location, in the order of character_states.items()
\* (the dict is filled in the order of active_characters, main.py:104-120)
RECURSIVE CharactersAt(_, _, _)
CharactersAt(char_ids, character_states, event_location_id) ==
    IF char_ids = <<>> THEN <<>>
    ELSE (IF character_states[Head(char_ids)].location = event_location_id
          THEN <<Head(char_ids)>> ELSE <<>>)
            \o CharactersAt(Tail(char_ids), character_states, event_location_id)

\* the rule-based fallback (perspective_filter.py:261-268 and 273-280)
RuleBasedObservers(world_state, event_location_id) ==
    IF event_location_id # NoLocation
    THEN CharactersAt(world_state.active_characters, world_state.character_states,
                      event_location_id)
    ELSE <<>>

\* variant of get_observers that returns the answered list as it came
get_observers_Unfiltered(world_state, reply, event_location_id) ==
    IF reply.kind = "list"
    THEN [ret |-> reply.observers, raised |-> FALSE]
    ELSE [ret |-> RuleBasedObservers(world_state, event_location_id), raised |-> FALSE]

\* get_observers(factual_outcome, ground_truth_world_state, event_location_id)
get_observers(world_state, reply, event_location_id) ==
    IF reply.kind = "list"
    THEN [ret |-> ValidObservers(reply.observers, world_state.character_states),
          raised |-> FALSE]
    ELSE [ret |-> RuleBasedObservers(world_state, event_location_id), raised |-> FALSE]

\* f"scene_{current_scene_id}_turn_{turn_number}"
PerceptionTimestamp(world_state) ==
    s_scene_prefix \o world_state.current_scene_id \o s_turn_infix
        \o IntToStr(world_state.turn_number)

\* SubjectiveEvent(...); an id that is None is the empty text
SubjectiveEvent(timestamp, observer_id, perceived_description, inferred_actor, inferred_target) ==
    [timestamp |-> timestamp, observer_id |-> observer_id,
     perceived_description |-> perceived_description,
     inferred_actor |-> inferred_actor, inferred_target |-> inferred_target]

\* answers of generate_json_response: it raised, it returned something that
\* is not an object (None, a list, a text, or the coroutine that the async
\* method of llm_interface.py:113 hands to a caller that does not await it),
\* or an object as the mocked service of the tests returns it; of an object,
\* present is the set of its keys, nulls the keys whose value is null and
\* fields the values of the other keys
NoFields == [none |-> <<>>]
JsonFailure == [kind |-> "failure", present |-> {}, nulls |-> {}, fields |-> NoFields]
JsonNotObject ==
    [kind |-> "not_object", present |-> {}, nulls |-> {}, fields |-> NoFields]
JsonDict(present, nulls, fields) ==
    [kind |-> "object", present |-> present, nulls |-> nulls, fields |-> fields]

\* response_json.get(key, default), None being the empty text
JsonGet(reply, key, default) ==
    IF key \notin reply.present THEN default
    ELSE IF key \in reply.nulls THEN <<>>
    ELSE reply.fields[key]

\* the event a request falls back to (perspective_filter.py:363-369)
default_subjective_event(world_state, observer_id, factual_outcome, actor_id, target_id) ==
    SubjectiveEvent(PerceptionTimestamp(world_state), observer_id,
                    s_standard_perception \o observer_id \o s_paren_colon
                        \o factual_outcome,
                    actor_id, target_id)

\* variant of get_subjective_event that takes the observer from the answer
get_subjective_event_TrustsAnswer(world_state, observer_id, factual_outcome, actor_id, target_id, reply) ==
    LET default == default_subjective_event(world_state, observer_id,
                                            factual_outcome, actor_id, target_id)
    IN  IF reply.kind = "object" /\ reply.present # {}
        THEN [ret |-> SubjectiveEvent(
                        default.timestamp,
                        JsonGet(reply, "observer_id", observer_id),
                        JsonGet(reply, "perceived_description",
                                default.perceived_description),
                        JsonGet(reply, "inferred_actor", default.inferred_actor),
                        JsonGet(reply, "inferred_target", default.inferred_target)),
              called_service |-> TRUE, raised |-> FALSE]
        ELSE [ret |-> default, called_service |-> TRUE, raised |-> FALSE]

\* get_subjective_event(observer_id, factual_outcome, ground_truth_world_state,
\* actor_id, target_id)
get_subjective_event(world_state, observer_id, factual_outcome, actor_id, target_id, reply) ==
    LET default == default_subjective_event(world_state, observer_id,
                                            factual_outcome, actor_id, target_id)
    IN  IF observer_id \notin DOMAIN world_state.character_states
        THEN [ret |-> SubjectiveEvent(
                        PerceptionTimestamp(world_state), observer_id,
                        s_unable_to_determine \o observer_id \o s_paren_colon
                            \o factual_outcome,
                        actor_id, target_id),
              called_service |-> FALSE, raised |-> FALSE]
        ELSE IF reply.kind = "object" /\ reply.present # {}
        THEN \* perceived_description: str rejects null (ValidationError,
             \* caught at perspective_filter.py:391)
             IF "perceived_description" \in reply.nulls
             THEN [ret |-> default, called_service |-> TRUE, raised |-> FALSE]
             ELSE [ret |-> SubjectiveEvent(
                             default.timestamp, observer_id,
                             JsonGet(reply, "perceived_description",
                                     default.perceived_description),
                             JsonGet(reply, "inferred_actor", default.inferred_actor),
                             JsonGet(reply, "inferred_target",
                                     default.inferred_target)),
                   called_service |-> TRUE, raised |-> FALSE]
        ELSE [ret |-> default, called_service |-> TRUE, raised |-> FALSE]

\* SubjectiveWorldView(...): a description is the sequence of the parts it
\* is formatted from, a visible character is its id
SubjectiveWorldView(character_id, timestamp, perceived_location_id, perceived_location_description, visible_characters, inferred_context, active_focus_or_goal) ==
    [character_id |-> character_id, timestamp |-> timestamp,
     perceived_location_id |-> perceived_location_id,
     perceived_location_description |-> perceived_location_description,
     visible_characters |-> visible_characters, visible_objects |-> <<>>,
     recent_perceived_events |-> <<>>, inferred_context |-> inferred_context,
     active_focus_or_goal |-> active_focus_or_goal]

\* the view returned for an id the world state does not hold
\* (perspective_filter.py:53-62)
minimal_view(world_state, character_id) ==
    SubjectiveWorldView(character_id, PerceptionTimestamp(world_state), "unknown",
                        <<"Error: Character state missing.">>, <<>>,
                        "Error: Character state missing, cannot generate full subjective view.",
                        "")

\* the view a request falls back to (perspective_filter.py:166-172)
default_view(world_state, character_id) ==
    LET char_state == world_state.character_states[character_id]
    IN  SubjectiveWorldView(character_id, PerceptionTimestamp(world_state),
                            char_state.location,
                            <<"(Default basic perception) You are in ",
                              char_state.location, ".">>,
                            <<>>,
                            "Awaiting detailed subjective perception from LLM.", "")

\* the fields SubjectiveWorldView requires and those that reject null
ViewRequired ==
    {"character_id", "timestamp", "perceived_location_id",
     "perceived_location_description"}
ViewNotNull == ViewRequired \cup {"visible_characters", "inferred_context"}

\* SubjectiveWorldView(**response_json) passes validation
ViewValidates(reply) ==
    /\ ViewRequired \subseteq reply.present
    /\ reply.nulls \cap ViewNotNull = {}

\* SubjectiveWorldView(**response_json) for an answer that validates
ViewOfAnswer(reply) ==
    LET Field(key, default) ==
            IF key \in reply.present /\ key \notin reply.nulls
            THEN reply.fields[key] ELSE default
    IN  SubjectiveWorldView(
            reply.fields.character_id, reply.fields.timestamp,
            reply.fields.perceived_location_id,
            reply.fields.perceived_location_description,
            Field("visible_characters", <<>>),
            Field("inferred_context", "No specific inferences drawn at this moment."),
            Field("active_focus_or_goal", ""))

\* variant of get_view_for that falls back to the minimal view
get_view_for_MinimalFallback(world_state, character_id, reply) ==
    IF character_id \notin DOMAIN world_state.character_states
    THEN [ret |-> minimal_view(world_state, character_id),
          called_service |-> FALSE, raised |-> FALSE]
    ELSE IF reply.kind = "object" /\ reply.present # {} /\ ViewValidates(reply)
    THEN [ret |-> ViewOfAnswer(reply), called_service |-> TRUE, raised |-> FALSE]
    ELSE [ret |-> minimal_view(world_state, character_id),
          called_service |-> TRUE, raised |-> FALSE]

\* get_view_for(character_id, ground_truth_world_state)
get_view_for(world_state, character_id, reply) ==
    IF character_id \notin DOMAIN world_state.character_states
    THEN [ret |-> minimal_view(world_state, character_id),
          called_service |-> FALSE, raised |-> FALSE]
    ELSE IF reply.kind = "object" /\ reply.present # {} /\ ViewValidates(reply)
    THEN [ret |-> ViewOfAnswer(reply), called_service |-> TRUE, raised |-> FALSE]
    ELSE [ret |-> default_view(world_state, character_id),
          called_service |-> TRUE, raised |-> FALSE]

----------------------------------------------------------------------------
(* apply_plan *)

PositiveVerbs == {k_helps, k_thanks, k_praises, k_agrees_with, k_comforts, k_saves}
NegativeVerbs == {k_attacks, k_insults, k_threatens, k_accuses, k_ignores, k_betrays}

\* the keyword classification of _interpret_outcome_for_relationship_update:
\* <<trust_delta, affinity_delta>> in thousandths
OutcomeDeltas(factual_outcome) ==
    LET outcome_lower == Lower(factual_outcome)
    IN  IF \E verb \in PositiveVerbs : Contains(outcome_lower, verb) THEN <<50, 20>>
        ELSE IF \E verb \in NegativeVerbs : Contains(outcome_lower, verb) THEN <<-100, -50>>
        ELSE IF Contains(outcome_lower, k_disagrees_with) THEN <<-20, -10>>
        ELSE <<0, 0>>

\* variant of Times08 that gives both directions the same delta
Times08_Unscaled(x) == x

\* x * 0.8 on thousandths
Times08(x) == (x * 8) \div 10

\* _interpret_outcome_for_relationship_update: the list of adjustments
\* <<char_a, char_b, trust_delta, affinity_delta>>
InterpretOutcome(actor_name, factual_outcome, involved_characters) ==
    LET d == OutcomeDeltas(factual_outcome)
        others == involved_characters \ {actor_name}
    IN  IF Cardinality(involved_characters) < 2 \/ d = <<0, 0>> \/ others = {}
        THEN <<>>
        ELSE LET target_char == CHOOSE c \in others : TRUE
             IN  << <<actor_name, target_char, d[1], d[2]>>,
                    <<target_char, actor_name, Times08(d[1]), Times08(d[2])>> >>

RECURSIVE ApplyAdjustments(_, _, _)
ApplyAdjustments(rel, adjustments, i) ==
    IF i > Len(adjustments) THEN rel
    ELSE ApplyAdjustments(
            adjust_state(rel, adjustments[i][1], adjustments[i][2],
                         adjustments[i][3], adjustments[i][4], ""),
            adjustments, i + 1)

TargetCharKeys == <<"target_char_id", "target_character", "recipient", "target">>

\* details.get(key): the empty text for a missing key
DetailsGet(details, key) == IF key \in DOMAIN details THEN details[key] ELSE <<>>

\* variant of InvolvedForRelations that takes the named target as it is
InvolvedForRelations_AnyTarget(w, actor_name, details) ==
    LET named == {i \in 1..Len(TargetCharKeys) : DetailsGet(details, TargetCharKeys[i]) # <<>>}
    IN  IF named = {} THEN {actor_name}
        ELSE LET first == CHOOSE i \in named : \A j \in named : i <= j
             IN  {actor_name, DetailsGet(details, TargetCharKeys[first])}

\* the characters involved in a plan: the actor and the first named target,
\* when that target is a character of the world state
InvolvedForRelations(w, actor_name, details) ==
    LET named == {i \in 1..Len(TargetCharKeys) : DetailsGet(details, TargetCharKeys[i]) # <<>>}
    IN  IF named = {} THEN {actor_name}
        ELSE LET first == CHOOSE i \in named : \A j \in named : i <= j
                 target_char == DetailsGet(details, TargetCharKeys[first])
             IN  IF target_char \in DOMAIN w.world_state.character_states
                 THEN {actor_name, target_char}
                 ELSE {actor_name}

\* the adjust_state calls apply_plan issues for an outcome, in order:
\* <<char_a_id, char_b_id, trust_delta, affinity_delta>>
RelationshipAdjustments(w, actor_name, details, factual_outcome) ==
    LET involved == InvolvedForRelations(w, actor_name, details)
    IN  IF Cardinality(involved) >= 2
        THEN InterpretOutcome(actor_name, factual_outcome, involved)
        ELSE <<>>

\* outcome_response.strip().strip('"\\\'')
CleanReply(text) == StripChars(Strip(text), {"\"", "\\", "'"})

\* f"{actor_name} attempts to {action_type}."
FallbackOutcome(actor_name, action_type) ==
    actor_name \o s_attempts_to \o action_type \o s_dot

\* variant of apply_plan that counts the turn only when the service answered
apply_plan_FailureKeepsTurn(w, rel, actor_name, plan_json, llm) ==
    LET w2 == [w EXCEPT !.world_state.turn_number = @ + 1]
        factual_outcome == CleanReply(llm.text)
        involved == InvolvedForRelations(w2, actor_name, plan_json.details)
        adjustments == IF Cardinality(involved) >= 2
                       THEN InterpretOutcome(actor_name, factual_outcome, involved)
                       ELSE <<>>
    IN  IF llm.ok
        THEN [Result(FALSE, factual_outcome, w2, TRUE, FALSE)
                 EXCEPT !.rel = ApplyAdjustments(rel, adjustments, 1)]
        ELSE [Result(FALSE, FallbackOutcome(actor_name, plan_json.action), w, TRUE, FALSE)
                 EXCEPT !.rel = rel]

\* apply_plan(actor_name, plan_json); llm is the service's reply
apply_plan(w, rel, actor_name, plan_json, llm) ==
    LET w2 == [w EXCEPT !.world_state.turn_number = @ + 1]
        factual_outcome == CleanReply(llm.text)
        involved == InvolvedForRelations(w2, actor_name, plan_json.details)
        adjustments == IF Cardinality(involved) >= 2
                       THEN InterpretOutcome(actor_name, factual_outcome, involved)
                       ELSE <<>>
    IN  IF llm.ok
        THEN [Result(FALSE, factual_outcome, w2, TRUE, FALSE)
                 EXCEPT !.rel = ApplyAdjustments(rel, adjustments, 1)]
        ELSE [Result(FALSE, FallbackOutcome(actor_name, plan_json.action), w2, TRUE, FALSE)
                 EXCEPT !.rel = rel]

----------------------------------------------------------------------------
(* Event injection *)

\* the current beat carries a triggered event (script mode)
BeatTriggersEvent(w) ==
    /\ w.script_mode
    /\ w.current_beat # <<>>
    /\ w.current_beat[1].triggers_event # ""

\* variant of should_inject_event whose fallback waits for the stagnation
\* counter to reach the threshold itself
should_inject_event_StagnationAtThreshold(w, llm, r100) ==
    IF BeatTriggersEvent(w) THEN Result(TRUE, <<>>, w, FALSE, FALSE)
    ELSE IF llm.ok
         THEN Result(SaysYes(llm.text) \/ r100 < w.llm_event_injection_override_chance,
                     <<>>, w, TRUE, FALSE)
    ELSE IF r100 < w.fallback_event_injection_chance
         THEN Result(TRUE, <<>>, w, TRUE, FALSE)
    ELSE Result(Len(w.previous_token_counts) >= w.stagnation_threshold,
                <<>>, w, TRUE, FALSE)

\* should_inject_event(); r100 is random.random() in hundredths
should_inject_event(w, llm, r100) ==
    IF BeatTriggersEvent(w) THEN Result(TRUE, <<>>, w, FALSE, FALSE)
    ELSE IF llm.ok
         THEN Result(SaysYes(llm.text) \/ r100 < w.llm_event_injection_override_chance,
                     <<>>, w, TRUE, FALSE)
    ELSE IF r100 < w.fallback_event_injection_chance
         THEN Result(TRUE, <<>>, w, TRUE, FALSE)
    ELSE Result(Len(w.previous_token_counts) >= w.stagnation_threshold - 1,
                <<>>, w, TRUE, FALSE)

fallback_events == <<e_fallback_1, e_fallback_2, e_fallback_3, e_fallback_4, e_fallback_5>>

\* next((e for e in world_events_pool if e.get("event_id") == event_id), None):
\* its index, 0 for None
FindEvent(pool, event_id) ==
    LET found == {i \in 1..Len(pool) : pool[i].event_id = event_id}
    IN  IF found = {} THEN 0 ELSE CHOOSE i \in found : \A j \in found : i <= j

\* variant of generate_event that returns the scripted event without
\* completing the beat
generate_event_BeatNotCompleted(w, llm, pick, pick5) ==
    LET pool == w.world_definition.world_events_pool
        beat == w.current_beat[1]
        found == FindEvent(pool, beat.triggers_event)
        event_text == CleanReply(llm.text)
    IN  IF BeatTriggersEvent(w) /\ pool # <<>> /\ found # 0
        THEN Result(FALSE,
                    IF pool[found].description # <<>>
                    THEN pool[found].description ELSE e_something_happens,
                    w, FALSE, FALSE)
        ELSE IF pool # <<>>
             THEN Result(FALSE,
                         IF pool[pick].description # <<>>
                         THEN pool[pick].description ELSE e_something_unexpected,
                         w, FALSE, FALSE)
        ELSE IF w.llm_interface
             THEN (IF llm.ok THEN Result(FALSE, event_text, w, TRUE, FALSE)
                   ELSE Result(FALSE, e_environment_shifts, w, TRUE, FALSE))
        ELSE Result(FALSE, fallback_events[pick5], w, FALSE, FALSE)

\* generate_event(); llm is the service's reply, pick the index random.choice
\* draws in the event pool, pick5 the one it draws in the built-in list
generate_event(w, llm, pick, pick5) ==
    LET pool == w.world_definition.world_events_pool
        beat == w.current_beat[1]
        found == FindEvent(pool, beat.triggers_event)
        w_done == [w EXCEPT
                     !.completed_beats =
                         IF beat.beat_id # "" THEN @ \cup {beat.beat_id} ELSE @,
                     !.current_beat = <<>>]
        event_text == CleanReply(llm.text)
    IN  IF BeatTriggersEvent(w) /\ pool # <<>> /\ found # 0
        THEN Result(FALSE,
                    IF pool[found].description # <<>>
                    THEN pool[found].description ELSE e_something_happens,
                    w_done, FALSE, FALSE)
        ELSE IF pool # <<>>
             THEN Result(FALSE,
                         IF pool[pick].description # <<>>
                         THEN pool[pick].description ELSE e_something_unexpected,
                         w, FALSE, FALSE)
        ELSE IF w.llm_interface
             THEN (IF llm.ok THEN Result(FALSE, event_text, w, TRUE, FALSE)
                   ELSE Result(FALSE, e_environment_shifts, w, TRUE, FALSE))
        ELSE Result(FALSE, fallback_events[pick5], w, FALSE, FALSE)

----------------------------------------------------------------------------
(* update_from_outcome *)

\* xs[-n:] as Python slices it: the whole list for n = 0
TailSlice(xs, n) == IF n = 0 THEN xs ELSE LastN(xs, n)

\* The service's reply to the extraction request, after json.loads:
\*   kind "invalid"  the text is not JSON (JSONDecodeError)
\*   kind "scalar"   JSON that is not an object (TypeError on use)
\*   kind "object"   an object; each of its three members is
\*                   [shape |-> "absent"], [shape |-> "wrong"] (not an object)
\*                   or [shape |-> "dict", value |-> ...]
Absent == [shape |-> "absent", value |-> <<>>]
WrongShape == [shape |-> "wrong", value |-> <<>>]
DictOf(v) == [shape |-> "dict", value |-> v]
JsonInvalid == [kind |-> "invalid", location_changes |-> Absent,
                condition_changes |-> Absent, time_changes |-> Absent]
JsonScalar == [kind |-> "scalar", location_changes |-> Absent,
               condition_changes |-> Absent, time_changes |-> Absent]
JsonObject(loc, cond, time) == [kind |-> "object", location_changes |-> loc,
                                condition_changes |-> cond, time_changes |-> time]

RECURSIVE AddConditions(_, _, _)
\* for condition in conditions: append when not yet present
AddConditions(existing_conditions, conditions, i) ==
    IF i > Len(conditions) THEN existing_conditions
    ELSE AddConditions(
            IF conditions[i] \in Range(existing_conditions)
            THEN existing_conditions
            ELSE Append(existing_conditions, conditions[i]),
            conditions, i + 1)

\* a condition_changes object whose values are not iterable (numbers): names
\* is the set of its keys
BadValues(names) == [shape |-> "bad_values", value |-> names]

\* variant of ApplyChanges that stores a newly built state object for a
\* character whose location changes
ApplyChanges_ReplacesState(w, changes) ==
    LET cs == w.world_state.character_states
        loc == changes.location_changes
        cond == changes.condition_changes
        time == changes.time_changes
        cs1 == [c \in DOMAIN cs |->
                  IF loc.shape = "dict" /\ c \in DOMAIN loc.value
                  THEN [cs[c] EXCEPT !.location = loc.value[c],
                                     !.oid = @ + Cardinality(DOMAIN cs)]
                  ELSE cs[c]]
        cond_raises == /\ cond.shape = "bad_values"
                       /\ \E c \in cond.value : c \in DOMAIN cs
        cs2 == [c \in DOMAIN cs1 |->
                  IF cond.shape = "dict" /\ c \in DOMAIN cond.value
                  THEN [cs1[c] EXCEPT !.conditions = AddConditions(@, cond.value[c], 1)]
                  ELSE cs1[c]]
    IN  IF cond_raises
        THEN [w EXCEPT !.world_state.character_states = cs1]
        ELSE [w EXCEPT
                !.world_state.character_states = cs2,
                !.world_state.time_of_day =
                    IF time.shape = "dict" /\ "time_of_day" \in DOMAIN time.value
                    THEN time.value["time_of_day"] ELSE @]

\* the location, condition and time deltas of a parsed object applied to the
\* character states in place, attribute by attribute (the state objects keep
\* their identity).  Iterating a condition value that is not iterable raises
\* TypeError, which ends the application: the locations are already written,
\* the time is not.
ApplyChanges(w, changes) ==
    LET cs == w.world_state.character_states
        loc == changes.location_changes
        cond == changes.condition_changes
        time == changes.time_changes
        cs1 == [c \in DOMAIN cs |->
                  IF loc.shape = "dict" /\ c \in DOMAIN loc.value
                  THEN [cs[c] EXCEPT !.location = loc.value[c]]
                  ELSE cs[c]]
        cond_raises == /\ cond.shape = "bad_values"
                       /\ \E c \in cond.value : c \in DOMAIN cs
        cs2 == [c \in DOMAIN cs1 |->
                  IF cond.shape = "dict" /\ c \in DOMAIN cond.value
                  THEN [cs1[c] EXCEPT !.conditions = AddConditions(@, cond.value[c], 1)]
                  ELSE cs1[c]]
    IN  IF cond_raises
        THEN [w EXCEPT !.world_state.character_states = cs1]
        ELSE [w EXCEPT
                !.world_state.character_states = cs2,
                !.world_state.time_of_day =
                    IF time.shape = "dict" /\ "time_of_day" \in DOMAIN time.value
                    THEN time.value["time_of_day"] ELSE @]

\* variant of update_from_outcome that records the event only when the
\* service answered
update_from_outcome_RecordsOnAnswer(w, factual_outcome, llm, json) ==
    LET appended == Append(w.world_state.recent_events_summary, factual_outcome)
        w2 == [w EXCEPT !.world_state.recent_events_summary =
                  IF Len(appended) > w.recent_events_history_limit
                  THEN TailSlice(appended, w.recent_events_history_limit)
                  ELSE appended]
    IN  IF llm.ok /\ json.kind = "object"
        THEN Result(FALSE, <<>>, ApplyChanges(w2, json), TRUE, FALSE)
        ELSE IF llm.ok THEN Result(FALSE, <<>>, w2, TRUE, FALSE)
        ELSE Result(FALSE, <<>>, w, TRUE, FALSE)

\* update_from_outcome(factual_outcome); llm.ok tells whether the service
\* answered, json is its answer after json.loads
update_from_outcome(w, factual_outcome, llm, json) ==
    LET appended == Append(w.world_state.recent_events_summary, factual_outcome)
        w2 == [w EXCEPT !.world_state.recent_events_summary =
                  IF Len(appended) > w.recent_events_history_limit
                  THEN TailSlice(appended, w.recent_events_history_limit)
                  ELSE appended]
    IN  IF llm.ok /\ json.kind = "object"
        THEN Result(FALSE, <<>>, ApplyChanges(w2, json), TRUE, FALSE)
        ELSE Result(FALSE, <<>>, w2, TRUE, FALSE)

----------------------------------------------------------------------------
(* Mood access *)

\* get_character_mood: MoodVector() stands for None
get_character_mood(w, actor_name) ==
    IF actor_name \in DOMAIN w.world_state.character_states
    THEN w.world_state.character_states[actor_name].current_mood
    ELSE MoodVector

\* update_character_mood(actor_name, updated_mood)
update_character_mood(w, actor_name, updated_mood) ==
    IF actor_name \in DOMAIN w.world_state.character_states
    THEN [w EXCEPT !.world_state.character_states[actor_name].current_mood = updated_mood]
    ELSE w

----------------------------------------------------------------------------
(* MoodVector construction and CharacterAgent.reflect (models.py,           *)
(* character_agent.py)                                                      *)

MoodComponents == {"joy", "fear", "anger", "sadness", "surprise", "trust"}

\* max(0.0, min(1.0, value)) in hundredths (models.py:24-26)
ClampMood(value) == Max(0, Min(100, value))

\* variant of MoodVectorNew that stores the values as given
MoodVectorNew_Unclamped(values) == [c \in MoodComponents |-> values[c]]

\* MoodVector(joy=..., ...): __post_init__ clamps every component
MoodVectorNew(values) == [c \in MoodComponents |-> ClampMood(values[c])]

\* answers to a reflection request: the call raised, the answer is no
\* object, or it is an object whose "updated_mood" is absent, no object
\* (null, a list, a text) or an object; of that object numbers holds the
\* components given as numbers and non_numbers names those given otherwise
NoNumbers == [c \in {} |-> 0]
MoodFailure ==
    [kind |-> "failure", mood_kind |-> "absent", numbers |-> NoNumbers,
     non_numbers |-> {}]
MoodNotObject ==
    [kind |-> "not_object", mood_kind |-> "absent", numbers |-> NoNumbers,
     non_numbers |-> {}]
MoodAnswer(mood_kind, numbers, non_numbers) ==
    [kind |-> "object", mood_kind |-> mood_kind, numbers |-> numbers,
     non_numbers |-> non_numbers]

\* reflect raises inside its try block: no .get on the answer or on
\* updated_mood, or a comparison of a non-number in __post_init__
ReflectFails(reply) ==
    \/ reply.kind # "object"
    \/ reply.mood_kind = "not_object"
    \/ reply.mood_kind = "object" /\ reply.non_numbers # {}

\* reflect(...): the mood returned and the agent's current_mood afterwards
reflect(current_mood, reply) ==
    IF ReflectFails(reply)
    THEN [updated_mood |-> current_mood, current_mood |-> current_mood]
    ELSE LET updated_mood ==
                 MoodVectorNew([c \in MoodComponents |->
                                  IF reply.mood_kind = "object" /\ c \in DOMAIN reply.numbers
                                  THEN reply.numbers[c] ELSE current_mood[c]])
         IN  [updated_mood |-> updated_mood, current_mood |-> updated_mood]

----------------------------------------------------------------------------
(* Configurations and inputs explored *)

\* CharacterState as main() builds it (main.py:108-117)
\* oid is the identity of the object created: assignments to its attributes
\* keep it, a newly constructed state would carry another one
CharacterStateNew(oid, persona, activity_coefficient) ==
    [oid |-> oid, location |-> "initial_location", current_mood |-> MoodVector,
     conditions |-> <<>>, persona |-> persona, goals |-> <<"goal">>,
     activity_coefficient |-> activity_coefficient]

Beat(scene_id, beat_id, triggers_event, required_actor) ==
    [scene_id |-> scene_id, beat_id |-> beat_id,
     triggers_event |-> triggers_event, required_actor |-> required_actor]

WorldEvent(event_id, description) == [event_id |-> event_id, description |-> description]

\* a world without script beats and without an event pool
WorldFree == [script_beats |-> <<>>, world_events_pool |-> <<>>]

\* a scripted world: scene 1 has one beat triggering a pooled event, scene 2 a
\* beat triggering a pooled event and a beat without event, scene 3 a beat
\* whose event id is not in the pool; later scenes have no beat
WorldScripted ==
    [script_beats |-> << Beat(1, "intro", "artifact", <<>>),
                         Beat(2, "arrival", "storm", Bo),
                         Beat(2, "talk", "", <<>>),
                         Beat(3, "discovery", "missing_event", <<>>) >>,
     world_events_pool |-> << WorldEvent("storm", d_storm),
                              WorldEvent("artifact", <<>>) >>]

\* the cast: ids in dict order with their activity coefficients (tenths)
Cast(ids, coefficients) ==
    [ids |-> ids,
     states |-> [c \in Range(ids) |->
                    LET i == CHOOSE i \in 1..Len(ids) : ids[i] = c
                    IN  CharacterStateNew(i, "persona", coefficients[i])]]

\* an entry of the scene log (main.py:231-241, 264-270)
LogEntry(turn_no, actor, outcome, is_world_event) ==
    [turn |-> turn_no, actor |-> actor, outcome |-> outcome,
     is_world_event |-> is_world_event]

YesNoReplies == {LlmFail, LlmText(r_no), LlmText(r_padded_yes),
                 LlmText(r_mid_yes), LlmText(r_far_yes)}
NameReplies == {LlmFail, LlmText(r_pick_al), LlmText(r_pick_bo_long),
                LlmText(r_pick_alma), LlmText(r_pick_none)}
OutcomeReplies == {LlmFail, LlmText(r_quoted_nods), LlmText(o_helps)}
EventReplies == {LlmFail, LlmText(r_creak), LlmText(r_only_quotes)}
JsonReplies == {JsonInvalid, JsonScalar,
                JsonObject(DictOf([x \in {Al} |-> "old_ruins"]),
                           DictOf([x \in {Al} |-> <<"tired">>]),
                           DictOf([time_of_day |-> "evening"])),
                JsonObject(WrongShape, Absent, Absent),
                JsonObject(DictOf([x \in {Al} |-> "old_ruins"]),
                           BadValues({Al}),
                           DictOf([time_of_day |-> "evening"]))}
InjectDraws == {0, 5, 15, 99}
Moods == {MoodVector, [MoodVector EXCEPT !.joy = 100]}

NoArgs == [scene_log |-> <<>>, llm_ok |-> FALSE, actor |-> <<>>, action |-> <<>>,
           outcome |-> <<>>, scene_number |-> NoArg, reply |-> <<>>, draw |-> NoArg]

\* word counts of the last three outcomes of a log of at least 3 entries
LastThreeWords(scene_log) ==
    [i \in 1..3 |-> WordCount(scene_log[Len(scene_log) - 3 + i].outcome)]

AllShort(scene_log) == \A i \in 1..3 : LastThreeWords(scene_log)[i] < 5

SmallDifferences(scene_log) ==
    /\ Abs(LastThreeWords(scene_log)[2] - LastThreeWords(scene_log)[1]) < 3
    /\ Abs(LastThreeWords(scene_log)[3] - LastThreeWords(scene_log)[2]) < 3

\* an evaluation of judge_scene_end that reached the stagnation fallback and
\* found the last three outcomes long enough and of nearly equal length
StagnantEvaluation(op, res, args) ==
    /\ op = "judge_scene_end"
    /\ res.consulted
    /\ ~args.llm_ok
    /\ Len(args.scene_log) >= 3
    /\ ~AllShort(args.scene_log)
    /\ SmallDifferences(args.scene_log)

\* the record kept of the most recent call; stagnant_run is the number of
\* stagnant evaluations among the latest evaluations of judge_scene_end of the
\* scene, counted back until an evaluation that was not stagnant
Observe(op, res, args) ==
    [op |-> op, ret |-> res.ret, out |-> res.out, info |-> res.info,
     consulted |-> res.consulted, raised |-> res.raised, args |-> args,
     stagnant_run |-> IF StagnantEvaluation(op, res, args) THEN last.stagnant_run + 1
                      ELSE IF op \in {"judge_scene_end", "init_scene"} THEN 0
                      ELSE last.stagnant_run]

NoCall ==
    [op |-> "none", ret |-> FALSE, out |-> <<>>, info |-> NoInfo,
     consulted |-> FALSE, raised |-> FALSE, args |-> NoArgs, stagnant_run |-> 0]

main_vars == <<pc, scene_num, turn_num, current_scene_log_entries, turn, memory,
               agent_moods>>

\* every agent is constructed with the starting mood of its character
\* (character_agent.py:53-60, main.py:108-125)
StartingMoods ==
    [c \in DOMAIN wa.world_state.character_states |->
        wa.world_state.character_states[c].current_mood]

\* main()'s variables while the WorldAgent is driven directly
MainIdle ==
    /\ pc = "api"
    /\ scene_num = 0
    /\ turn_num = 0
    /\ current_scene_log_entries = <<>>
    /\ turn = <<>>
    /\ memory = MemoryManagerNew
    /\ agent_moods = StartingMoods

----------------------------------------------------------------------------
(* The WorldAgent's operations as calls with inputs drawn from given sets   *)

CallInitScene(Numbers) ==
    /\ \E n \in Numbers :
          /\ n = NoArg => SceneNumberOf(wa.world_state.current_scene_id) < MaxSceneNumber
          /\ wa' = init_scene(wa, n)
          /\ last' = Observe("init_scene", Result(FALSE, <<>>, wa', FALSE, FALSE),
                             [NoArgs EXCEPT !.scene_number = n])
    /\ UNCHANGED <<relationships, main_vars>>

CallJudgeSceneEnd(Logs, Replies) ==
    /\ Len(wa.previous_token_counts) < wa.stagnation_threshold + MaxStagnationOver
    /\ \E scene_log \in Logs, llm \in Replies :
          LET res == judge_scene_end(wa, scene_log, llm)
          IN  /\ wa' = res.wa
              /\ last' = Observe("judge_scene_end", res,
                                 [NoArgs EXCEPT !.scene_log = scene_log, !.llm_ok = llm.ok])
    /\ UNCHANGED <<relationships, main_vars>>

CallDecideNextActor(Replies) ==
    /\ \E llm \in Replies, rn \in 0..(RandomDen - 1) :
          LET res == decide_next_actor(wa, llm, rn)
          IN  /\ wa' = res.wa
              /\ last' = Observe("decide_next_actor", res, [NoArgs EXCEPT !.llm_ok = llm.ok])
    /\ UNCHANGED <<relationships, main_vars>>

CallChoosePov(Replies) ==
    /\ \E llm \in Replies, pick \in 1..Max(1, Len(wa.world_state.active_characters)) :
          LET res == choose_pov_character_for_scene(wa, llm, pick)
          IN  /\ wa' = res.wa
              /\ last' = Observe("choose_pov_character_for_scene", res,
                                 [NoArgs EXCEPT !.llm_ok = llm.ok])
    /\ UNCHANGED <<relationships, main_vars>>

CallApplyPlan(Actors, PlanSet, Replies, turn_cap) ==
    /\ wa.world_state.turn_number < turn_cap
    /\ \E actor \in Actors, plan \in PlanSet, llm \in Replies :
          LET res == apply_plan(wa, relationships, actor, plan, llm)
          IN  /\ wa' = res.wa
              /\ relationships' = res.rel
              /\ last' = Observe("apply_plan", res,
                                 [NoArgs EXCEPT !.llm_ok = llm.ok, !.actor = actor,
                                                !.action = plan.action])
    /\ UNCHANGED main_vars

CallShouldInjectEvent(Replies, Draws) ==
    /\ \E llm \in Replies, r100 \in Draws :
          LET res == should_inject_event(wa, llm, r100)
          IN  /\ wa' = res.wa
              /\ last' = Observe("should_inject_event", res,
                                 [NoArgs EXCEPT !.llm_ok = llm.ok, !.reply = llm.text,
                                                !.draw = r100])
    /\ UNCHANGED <<relationships, main_vars>>

CallGenerateEvent(Replies, Picks5) ==
    /\ \E llm \in Replies,
          pick \in 1..Max(1, Len(wa.world_definition.world_events_pool)),
          pick5 \in Picks5 :
          LET res == generate_event(wa, llm, pick, pick5)
          IN  /\ wa' = res.wa
              /\ last' = Observe("generate_event", res, [NoArgs EXCEPT !.llm_ok = llm.ok])
    /\ UNCHANGED <<relationships, main_vars>>

CallUpdateFromOutcome(Outcomes, Jsons) ==
    /\ Len(wa.world_state.recent_events_summary) < MaxRecentLen
    /\ \E outcome \in Outcomes, llm \in {LlmFail, LlmText(<<>>)}, json \in Jsons :
          LET res == update_from_outcome(wa, outcome, llm, json)
          IN  /\ wa' = res.wa
              /\ last' = Observe("update_from_outcome", res,
                                 [NoArgs EXCEPT !.llm_ok = llm.ok, !.outcome = outcome])
    /\ UNCHANGED <<relationships, main_vars>>

CallUpdateCharacterMood(Actors, MoodSet) ==
    /\ \E actor \in Actors, mood \in MoodSet :
          /\ wa' = update_character_mood(wa, actor, mood)
          /\ last' = Observe("update_character_mood",
                             Result(FALSE, <<>>, wa', FALSE, FALSE),
                             [NoArgs EXCEPT !.actor = actor])
    /\ UNCHANGED <<relationships, main_vars>>

----------------------------------------------------------------------------
(* JudgeSpec: scene lifecycle calls (init_scene, apply_plan, generate_event, *)
(* judge_scene_end) in any order, in free and scripted worlds               *)

ApiWorlds == { <<WorldFree, FALSE>>, <<WorldFree, TRUE>>, <<WorldScripted, TRUE>> }
ApiCast == Cast(<<Al, Bo>>, <<8, 6>>)
PlanWave == [action |-> a_wave, details |-> [note |-> a_wave], tone_of_action |-> "calm"]
PlanHelpBo == [action |-> a_help, details |-> [target |-> Bo], tone_of_action |-> "kind"]

EntryNods == LogEntry(1, Al, o_nods, FALSE)
EntryHelps == LogEntry(1, Al, o_helps, FALSE)
\* scene logs: empty, too short, all short, stagnant, changing
JudgeLogs == { <<>>, <<EntryHelps>>, <<EntryHelps, EntryHelps>>,
               <<EntryNods, EntryNods, EntryNods>>,
               <<EntryHelps, EntryHelps, EntryHelps>>,
               <<EntryNods, EntryNods, EntryHelps, EntryHelps, EntryHelps>>,
               <<EntryNods, EntryHelps, EntryHelps>>,
               <<EntryHelps, EntryHelps, EntryHelps, EntryNods>> }

WorldAgentInit(Worlds, cast) ==
    \E cfg \in Worlds :
        wa = [WorldAgentNew(cfg[1], cast.ids, cast.states) EXCEPT !.script_mode = cfg[2]]

JudgeInit ==
    /\ WorldAgentInit(ApiWorlds, ApiCast)
    /\ relationships = <<>>
    /\ last = NoCall
    /\ MainIdle

JudgeInitScene == CallInitScene({NoArg} \cup 1..MaxSceneNumber)
JudgeApplyPlan == CallApplyPlan({Al}, {PlanWave}, {LlmFail}, max_scene_turns + 1)
JudgeGenerateEvent == CallGenerateEvent({LlmFail}, {1})
JudgeCall == CallJudgeSceneEnd(JudgeLogs, YesNoReplies)

JudgeNext ==
    \/ JudgeInitScene
    \/ JudgeApplyPlan
    \/ JudgeGenerateEvent
    \/ JudgeCall

JudgeSpec == JudgeInit /\ [][JudgeNext]_vars

----------------------------------------------------------------------------
(* Properties of judge_scene_end (JudgeSpec) *)

Judged == last.op = "judge_scene_end"
TurnCapReached == wa.world_state.turn_number >= wa.max_scene_turns

\* some beat of the current scene number is not in the completed set
SomeBeatLeft ==
    \E i \in 1..Len(wa.world_definition.script_beats) :
        /\ wa.world_definition.script_beats[i].scene_id
              = SceneNumberOf(wa.world_state.current_scene_id)
        /\ wa.world_definition.script_beats[i].beat_id \notin wa.completed_beats

\* C2: judge_scene_end returns true whenever turn_number >= max_scene_turns,
\* for every scene log (the empty one included) and every reply or failure of
\* the service, and the service is not consulted in that case.
C2_TurnCapEndsScene ==
    (Judged /\ TurnCapReached) => (last.ret /\ ~last.consulted)

C2_Witness ==
    /\ Judged /\ TurnCapReached
    /\ ~wa.script_mode
    /\ last.args.scene_log = <<>>
    /\ last.ret

\* C6 as stated: judge_scene_end with a log of fewer than 3 entries always
\* returns false and does not consult the service.
C6_ShortLogAlwaysFalse ==
    (Judged /\ Len(last.args.scene_log) < 3) => (~last.ret /\ ~last.consulted)

\* C6 amended: judge_scene_end with a log of fewer than 3 entries returns false
\* without consulting the service, unless the hard turn cap is reached or, in
\* scripted mode, no beat of the current scene remains un-completed.
C6_ShortLogContinues ==
    ( /\ Judged
      /\ Len(last.args.scene_log) < 3
      /\ ~TurnCapReached
      /\ (~wa.script_mode \/ SomeBeatLeft) )
    => (~last.ret /\ ~last.consulted)

C6_Witness ==
    /\ Judged
    /\ Len(last.args.scene_log) = 2
    /\ last.args.llm_ok
    /\ ~TurnCapReached
    /\ ~wa.script_mode
    /\ ~last.ret /\ ~last.consulted

\* C7 as stated: in scripted mode judge_scene_end returns true whenever no
\* beat of the current scene number remains un-completed.
C7_NoBeatLeftEndsScene ==
    (Judged /\ wa.script_mode /\ ~SomeBeatLeft) => last.ret

\* C7 amended: in scripted mode, when there is no current beat, the world
\* defines script beats and no beat of the current scene number remains
\* un-completed, judge_scene_end returns true before any other rule (whatever
\* the turn number and the log, without consulting the service); while some
\* beat of the current scene is un-completed the scripted rule does not end
\* the scene (below the turn cap and with fewer than 3 entries the result is
\* false).
C7_ScriptedRuleFirst ==
    Judged =>
        /\ ( /\ wa.script_mode
             /\ wa.current_beat = <<>>
             /\ wa.world_definition.script_beats # <<>>
             /\ ~SomeBeatLeft )
           => (last.ret /\ ~last.consulted)
        /\ ( /\ wa.script_mode
             /\ SomeBeatLeft
             /\ ~TurnCapReached
             /\ Len(last.args.scene_log) < 3 )
           => (~last.ret /\ ~last.consulted)

C7_Witness ==
    /\ Judged
    /\ wa.script_mode
    /\ wa.completed_beats # {}
    /\ ~SomeBeatLeft
    /\ ~TurnCapReached
    /\ Len(last.args.scene_log) < 3
    /\ last.ret

StagnationCounter == Len(wa.previous_token_counts)

\* the call just made reached the service, which failed, with at least 3 entries
FallbackEvaluation ==
    /\ Judged
    /\ last.consulted
    /\ ~last.args.llm_ok
    /\ Len(last.args.scene_log) >= 3

\* the effect of one fallback evaluation on the counter and on the result
StagnationStep ==
    FallbackEvaluation' =>
        IF AllShort(last'.args.scene_log)
        THEN last'.ret /\ StagnationCounter' = StagnationCounter
        ELSE IF SmallDifferences(last'.args.scene_log)
             THEN /\ StagnationCounter' = StagnationCounter + 1
                  /\ last'.ret <=> (StagnationCounter' >= stagnation_detection_threshold)
             ELSE /\ StagnationCounter' = 0
                  /\ ~last'.ret

InitSceneResets == (last'.op = "init_scene") => (StagnationCounter' = 0)

\* the fallback ended the scene through the counter
EndedByCounter ==
    FallbackEvaluation /\ ~AllShort(last.args.scene_log) /\ last.ret

\* C8 as stated: in the stagnation fallback of judge_scene_end (service
\* failed, at least 3 log entries) the scene ends at once when each of the
\* last 3 outcomes has fewer than 5 words; otherwise, when both word-count
\* differences are below 3, the counter is incremented and the scene ends only
\* when it reaches the threshold, that is only after that many consecutive
\* stagnant evaluations of judge_scene_end in the same scene; otherwise the
\* counter is reset; init_scene resets it.
C8_ConsecutiveStagnantEvaluations ==
    [][ /\ StagnationStep
        /\ InitSceneResets
        /\ EndedByCounter' => (last'.stagnant_run >= stagnation_detection_threshold)
      ]_vars

\* C8 amended: in the stagnation fallback the scene ends at once, the counter
\* untouched, when each of the last 3 outcomes has fewer than 5 words;
\* otherwise, when both word-count differences are below 3, the counter grows
\* by one and the scene ends exactly when the counter has reached the
\* threshold; otherwise the counter is reset to 0 and the scene continues.
\* Evaluations that do not reach the fallback (decided by an earlier rule or
\* answered by the service) leave the counter as it is, so the stagnant
\* evaluations counted need not be consecutive; init_scene resets the counter.
C8_StagnationFallback ==
    [][ /\ StagnationStep
        /\ InitSceneResets
        /\ (last'.op = "judge_scene_end" /\ ~FallbackEvaluation')
              => (StagnationCounter' = StagnationCounter)
      ]_vars

\* the counter ends a scene although an evaluation answered by the service
\* lies between the stagnant ones
C8_Witness ==
    /\ EndedByCounter
    /\ StagnationCounter = stagnation_detection_threshold
    /\ last.stagnant_run < stagnation_detection_threshold

----------------------------------------------------------------------------
(* SelectSpec: actor and POV selection over casts that are empty, single,   *)
(* weighted, partly and wholly zero-weighted, in free and scripted worlds   *)

SelectCasts == { Cast(<<>>, <<>>),
                 Cast(<<Al>>, <<8>>),
                 Cast(<<Al, Bo>>, <<8, 6>>),
                 Cast(<<Bo, Al>>, <<0, 6>>),
                 Cast(<<Al, Bo>>, <<0, 0>>) }

SelectInit ==
    /\ \E cast \in SelectCasts : WorldAgentInit(ApiWorlds, cast)
    /\ relationships = <<>>
    /\ last = NoCall
    /\ MainIdle

SelectInitScene == CallInitScene({NoArg})
SelectGenerateEvent == CallGenerateEvent({LlmFail}, {1})
SelectDecideNextActor == CallDecideNextActor(NameReplies)
SelectChoosePov == CallChoosePov(NameReplies)

SelectNext ==
    \/ SelectInitScene
    \/ SelectGenerateEvent
    \/ SelectDecideNextActor
    \/ SelectChoosePov

SelectSpec == SelectInit /\ [][SelectNext]_vars

ActiveCharacters == wa.world_state.active_characters

\* C9: decide_next_actor always returns an identifier from the current
\* active-character list and never raises, for every non-empty active list,
\* every random draw and every assignment of non-negative activity
\* coefficients, all coefficients equal to 0 included.
C9_ActorAlwaysActive ==
    (last.op = "decide_next_actor" /\ ActiveCharacters # <<>>)
    => (~last.raised /\ last.out \in Range(ActiveCharacters))

\* C10 as stated: choose_pov_character_for_scene returns the "Narrator"
\* sentinel with all-zero mood, empty goals and empty persona, without
\* consulting the service, exactly when the active list is empty; with a
\* non-empty list it returns a member of the active list.
C10_NarratorEmptyPersona ==
    (last.op = "choose_pov_character_for_scene") =>
        IF ActiveCharacters = <<>>
        THEN /\ last.out = s_Narrator
             /\ last.info = PovInfo("", <<>>, MoodVector)
             /\ ~last.consulted
        ELSE last.out \in Range(ActiveCharacters)

\* C10 amended: choose_pov_character_for_scene returns the "Narrator" sentinel
\* with all-zero mood, empty goals and the fixed persona "Objective observer",
\* without consulting the service, exactly when the active list is empty; with
\* a non-empty list it returns, for every reply or failure of the service, a
\* member of the active list (which is not the sentinel).
C10_NarratorSentinel ==
    (last.op = "choose_pov_character_for_scene") =>
        IF ActiveCharacters = <<>>
        THEN /\ last.out = s_Narrator
             /\ last.info = PovInfo("Objective observer", <<>>, MoodVector)
             /\ ~last.consulted
        ELSE /\ last.out \in Range(ActiveCharacters)
             /\ last.out # s_Narrator
             /\ last.consulted

C10_Witness ==
    /\ last.op = "choose_pov_character_for_scene"
    /\ ActiveCharacters = <<>>
    /\ last.out = s_Narrator
    /\ last.info.persona = "Objective observer"

----------------------------------------------------------------------------
(* ApiSpec: every public operation of the WorldAgent called in any order    *)

ApiInit ==
    /\ WorldAgentInit(ApiWorlds, ApiCast)
    /\ relationships = <<>>
    /\ last = NoCall
    /\ MainIdle

ApiInitScene == CallInitScene({NoArg, 1})
ApiJudgeSceneEnd == CallJudgeSceneEnd({<<>>, <<EntryNods, EntryNods, EntryNods>>},
                                      {LlmFail, LlmText(r_no)})
ApiDecideNextActor == CallDecideNextActor({LlmFail, LlmText(r_pick_al)})
ApiChoosePov == CallChoosePov({LlmFail, LlmText(r_pick_al)})
ApiApplyPlan == CallApplyPlan({Al}, {PlanWave}, {LlmFail, LlmText(r_quoted_nods)},
                              MaxApiTurns)
ApiShouldInjectEvent == CallShouldInjectEvent({LlmFail, LlmText(r_no)}, {0, 99})
ApiGenerateEvent == CallGenerateEvent({LlmFail}, {1})
ApiUpdateFromOutcome ==
    CallUpdateFromOutcome({o_nods},
                          {JsonInvalid,
                           JsonObject(DictOf([x \in {Al} |-> "old_ruins"]), Absent, Absent)})
ApiUpdateCharacterMood == CallUpdateCharacterMood({Al}, Moods)

ApiNext ==
    \/ ApiInitScene
    \/ ApiJudgeSceneEnd
    \/ ApiDecideNextActor
    \/ ApiChoosePov
    \/ ApiApplyPlan
    \/ ApiShouldInjectEvent
    \/ ApiGenerateEvent
    \/ ApiUpdateFromOutcome
    \/ ApiUpdateCharacterMood

ApiSpec == ApiInit /\ [][ApiNext]_vars

TurnNumber == wa.world_state.turn_number
RecentEvents == wa.world_state.recent_events_summary

\* C4: when the service fails during apply_plan(actor, plan) the call does not
\* raise, returns exactly "{actor} attempts to {action}.", increments
\* turn_number by exactly 1 and appends that fallback line to recent events.
C4_FallbackLineRecorded ==
    [][ (last'.op = "apply_plan" /\ ~last'.args.llm_ok) =>
            /\ ~last'.raised
            /\ last'.out = last'.args.actor \o s_attempts_to \o last'.args.action \o s_dot
            /\ TurnNumber' = TurnNumber + 1
            /\ RecentEvents' # <<>>
            /\ RecentEvents'[Len(RecentEvents')] = last'.out
      ]_vars

\* C5: turn_number grows by exactly 1 per apply_plan call, init_scene resets
\* it to 0, and no other operation (judge_scene_end, decide_next_actor,
\* choose_pov_character_for_scene, should_inject_event, generate_event,
\* update_from_outcome, update_character_mood) changes it; so between two
\* init_scene calls it never decreases.
C5_TurnNumberFrame ==
    [][ IF last'.op = "apply_plan" THEN TurnNumber' = TurnNumber + 1
        ELSE IF last'.op = "init_scene" THEN TurnNumber' = 0
        ELSE TurnNumber' = TurnNumber
      ]_vars

C5_Witness ==
    /\ last.op = "apply_plan"
    /\ ~last.args.llm_ok
    /\ TurnNumber = MaxApiTurns
    /\ RecentEvents # <<>>

----------------------------------------------------------------------------
(* Spec: the simulation loop of main() (main.py:154-322), one action per    *)
(* call it makes.  pc is the position in the loop; turn_num is kept up to   *)
(* max_scene_turns + 1, beyond which main() only compares it to the cap.    *)

MainCasts == { Cast(<<>>, <<>>), Cast(<<Al>>, <<8>>), Cast(<<Al, Bo>>, <<0, 0>>) }
MainJudgeReplies == {LlmFail, LlmText(r_no), LlmText(r_yes)}
MainOutcomeReplies == {LlmFail, LlmText(o_helps)}

\* the turn under way: its actor, its outcome and the steps of main() taken
\* for it so far
NoTurn == [actor |-> <<>>, outcome |-> <<>>, steps |-> <<>>]

\* character_agents has the keys of initial_character_states (main.py:118-120)
character_agents == DOMAIN wa.world_state.character_states

Init ==
    /\ \E cast \in MainCasts : WorldAgentInit({<<WorldFree, FALSE>>}, cast)
    /\ relationships = <<>>
    /\ last = NoCall
    /\ pc = "scene_start"
    /\ scene_num = 0
    /\ turn_num = 0
    /\ current_scene_log_entries = <<>>
    /\ turn = NoTurn
    /\ memory = MemoryManagerNew
    /\ agent_moods = StartingMoods

\* for scene_num in range(max_scenes): init_scene(), turn_num = 0, empty log
MainInitScene ==
    /\ pc = "scene_start"
    /\ scene_num < max_scenes
    /\ wa' = init_scene(wa, NoArg)
    /\ last' = Observe("init_scene", Result(FALSE, <<>>, wa', FALSE, FALSE), NoArgs)
    /\ turn_num' = 0
    /\ current_scene_log_entries' = <<>>
    /\ pc' = "judge"
    /\ UNCHANGED <<memory, agent_moods, relationships, scene_num, turn>>

\* the loop is exhausted: the story and the log are saved
MainFinish ==
    /\ pc = "scene_start"
    /\ scene_num >= max_scenes
    /\ pc' = "finished"
    /\ UNCHANGED <<memory, agent_moods, wa, relationships, last, scene_num, turn_num,
                   current_scene_log_entries, turn>>

\* while not judge_scene_end(current_scene_log_entries): turn_num += 1
MainJudgeSceneEnd ==
    /\ pc = "judge"
    /\ \E llm \in MainJudgeReplies :
          LET res == judge_scene_end(wa, current_scene_log_entries, llm)
          IN  /\ wa' = res.wa
              /\ last' = Observe("judge_scene_end", res,
                                 [NoArgs EXCEPT !.scene_log = current_scene_log_entries,
                                                !.llm_ok = llm.ok])
              /\ IF res.ret
                 THEN pc' = "pov" /\ turn_num' = turn_num
                 ELSE pc' = "decide" /\ turn_num' = Min(turn_num + 1, max_scene_turns + 1)
    /\ UNCHANGED <<memory, agent_moods, relationships, scene_num, current_scene_log_entries, turn>>

\* decide_next_actor(); an actor without character agent skips the turn
MainDecideNextActor ==
    /\ pc = "decide"
    /\ \E llm \in {LlmFail, LlmText(r_pick_al)}, rn \in 0..(RandomDen - 1) :
          LET res == decide_next_actor(wa, llm, rn)
          IN  /\ wa' = res.wa
              /\ last' = Observe("decide_next_actor", res, [NoArgs EXCEPT !.llm_ok = llm.ok])
              /\ IF res.raised THEN pc' = "error" /\ turn' = turn
                 ELSE IF res.out \notin character_agents
                      THEN pc' = "judge" /\ turn' = turn
                 ELSE pc' = "reflect" /\ turn' = [NoTurn EXCEPT !.actor = res.out,
                                                                !.steps = <<"choose_actor">>]
    /\ UNCHANGED <<memory, agent_moods, relationships, scene_num, turn_num, current_scene_log_entries>>

\* the actor reflects and plans (either may raise); its mood is stored with
\* update_character_mood
MainReflectAndPlan ==
    /\ pc = "reflect"
    /\ \/ /\ \E mood \in Moods :
                /\ agent_moods' = [agent_moods EXCEPT ![turn.actor] = mood]
                /\ wa' = update_character_mood(wa, turn.actor, mood)
          /\ last' = Observe("update_character_mood",
                             Result(FALSE, <<>>, wa', FALSE, FALSE),
                             [NoArgs EXCEPT !.actor = turn.actor])
          /\ turn' = [turn EXCEPT !.steps = @ \o <<"reflect", "update_character_mood", "plan">>]
          /\ pc' = "apply"
       \/ /\ pc' = "error"
          /\ UNCHANGED <<wa, last, turn, agent_moods>>
    /\ UNCHANGED <<memory, relationships, scene_num, turn_num, current_scene_log_entries>>

\* factual_outcome = apply_plan(actor_name, plan_json)
MainApplyPlan ==
    /\ pc = "apply"
    /\ \E llm \in MainOutcomeReplies :
          LET res == apply_plan(wa, relationships, turn.actor, PlanWave, llm)
          IN  /\ wa' = res.wa
              /\ relationships' = res.rel
              /\ last' = Observe("apply_plan", res,
                                 [NoArgs EXCEPT !.llm_ok = llm.ok, !.actor = turn.actor,
                                                !.action = PlanWave.action])
              /\ turn' = [turn EXCEPT !.outcome = res.out,
                                       !.steps = Append(@, "apply_plan")]
    /\ pc' = "record"
    /\ UNCHANGED <<memory, agent_moods, scene_num, turn_num, current_scene_log_entries>>

\* the log entry is appended, update_from_outcome(factual_outcome) called and
\* the outcome remembered by the actor
MainRecordOutcome ==
    /\ pc = "record"
    /\ current_scene_log_entries' =
          Append(current_scene_log_entries,
                 LogEntry(turn_num, turn.actor, turn.outcome, FALSE))
    /\ LET res == update_from_outcome(wa, turn.outcome, LlmFail, JsonInvalid)
       IN  /\ wa' = res.wa
           /\ last' = Observe("update_from_outcome", res,
                              [NoArgs EXCEPT !.outcome = turn.outcome])
    /\ turn' = [turn EXCEPT !.steps = @ \o <<"update_from_outcome", "remember">>]
    /\ pc' = "inject"
    /\ UNCHANGED <<memory, agent_moods, relationships, scene_num, turn_num>>

\* if should_inject_event(): ...
MainShouldInjectEvent ==
    /\ pc = "inject"
    /\ \E r100 \in {0, 99} :
          LET res == should_inject_event(wa, LlmFail, r100)
          IN  /\ wa' = res.wa
              /\ last' = Observe("should_inject_event", res, NoArgs)
              /\ pc' = IF res.ret THEN "event" ELSE "cap"
    /\ UNCHANGED <<memory, agent_moods, relationships, scene_num, turn_num, current_scene_log_entries, turn>>

\* variant of MainGenerateEvent that asks again whether to inject an event
MainGenerateEvent_AsksAgain ==
    /\ pc = "event"
    /\ LET ev == generate_event(wa, LlmFail, 1, 1)
           res == update_from_outcome(ev.wa, ev.out, LlmFail, JsonInvalid)
       IN  /\ wa' = res.wa
           /\ last' = Observe("generate_event", ev, NoArgs)
           /\ current_scene_log_entries' =
                 Append(current_scene_log_entries, LogEntry(turn_num, s_World, ev.out, TRUE))
    /\ turn' = [turn EXCEPT !.steps = @ \o <<"generate_event", "update_from_outcome">>]
    /\ pc' = "inject"
    /\ UNCHANGED <<memory, agent_moods, relationships, scene_num, turn_num>>

\* generate_event(), its log entry, update_from_outcome(event_outcome)
MainGenerateEvent ==
    /\ pc = "event"
    /\ LET ev == generate_event(wa, LlmFail, 1, 1)
           res == update_from_outcome(ev.wa, ev.out, LlmFail, JsonInvalid)
       IN  /\ wa' = res.wa
           /\ last' = Observe("generate_event", ev, NoArgs)
           /\ current_scene_log_entries' =
                 Append(current_scene_log_entries, LogEntry(turn_num, s_World, ev.out, TRUE))
    /\ turn' = [turn EXCEPT !.steps = @ \o <<"generate_event", "update_from_outcome">>]
    /\ pc' = "cap"
    /\ UNCHANGED <<memory, agent_moods, relationships, scene_num, turn_num>>

\* if turn_num >= max_scene_turns: break
MainTurnCap ==
    /\ pc = "cap"
    /\ pc' = IF turn_num >= wa.max_scene_turns THEN "pov" ELSE "judge"
    /\ turn' = NoTurn
    /\ UNCHANGED <<memory, agent_moods, wa, relationships, last, scene_num, turn_num, current_scene_log_entries>>

\* end of scene: the POV is chosen, the scene narrated and summarised (either
\* of which may raise), and the next scene begins
MainEndScene ==
    /\ pc = "pov"
    /\ \E llm \in {LlmFail, LlmText(r_pick_al)},
          pick \in 1..Max(1, Len(wa.world_state.active_characters)) :
          LET res == choose_pov_character_for_scene(wa, llm, pick)
          IN  /\ wa' = res.wa
              /\ last' = Observe("choose_pov_character_for_scene", res,
                                 [NoArgs EXCEPT !.llm_ok = llm.ok])
    /\ \/ pc' = "scene_start" /\ scene_num' = scene_num + 1
       \/ pc' = "error" /\ scene_num' = scene_num
    /\ UNCHANGED <<memory, agent_moods, relationships, turn_num, current_scene_log_entries, turn>>

Next ==
    \/ MainInitScene
    \/ MainFinish
    \/ MainJudgeSceneEnd
    \/ MainDecideNextActor
    \/ MainReflectAndPlan
    \/ MainApplyPlan
    \/ MainRecordOutcome
    \/ MainShouldInjectEvent
    \/ MainGenerateEvent
    \/ MainTurnCap
    \/ MainEndScene

Spec == Init /\ [][Next]_vars

\* main() is sequential: whenever it can take its next step it does
LiveSpec == Spec /\ WF_vars(Next)

\* the steps of a turn that acts, without and with a world event
TurnSteps ==
    <<"choose_actor", "reflect", "update_character_mood", "plan", "apply_plan",
      "update_from_outcome", "remember">>
TurnStepsWithEvent == TurnSteps \o <<"generate_event", "update_from_outcome">>

IsPrefix(xs, ys) == Len(xs) <= Len(ys) /\ xs = SubSeq(ys, 1, Len(xs))

LastEntry == current_scene_log_entries[Len(current_scene_log_entries)]

ActorOutcomes ==
    Cardinality({i \in 1..Len(current_scene_log_entries) :
                    ~current_scene_log_entries[i].is_world_event})

\* C1: in the turn loop every scene terminates, for every behaviour of the
\* service and every set of characters (an empty active list included): the
\* scene ends after at most max_scene_turns applied turns and the run comes
\* to its end after max_scenes scenes (or is aborted by an exception).
C1_EverySceneTerminates ==
    /\ [](TurnNumber <= max_scene_turns)
    /\ <>(pc \in {"finished", "error"})

\* C3: turn_number is never left incremented without a recorded outcome: once
\* apply_plan has returned, the outcome it returned is in recent events, and
\* at every evaluation of judge_scene_end in the loop turn_number equals the
\* number of actor outcomes recorded for the scene since init_scene.
C3_TurnsHaveRecordedOutcomes ==
    /\ (last.op = "apply_plan") => (last.out \in Range(RecentEvents))
    /\ (pc = "judge") => (TurnNumber = ActorOutcomes)

----------------------------------------------------------------------------
(* UpdateSpec: init_scene, apply_plan and update_from_outcome under every   *)
(* kind of reply to the extraction request, for several history limits     *)

HistoryLimits == {0, 1, recent_events_history_limit}

UpdateInit ==
    /\ \E limit \in HistoryLimits :
          wa = [WorldAgentNew(WorldFree, ApiCast.ids, ApiCast.states)
                   EXCEPT !.recent_events_history_limit = limit]
    /\ relationships = <<>>
    /\ last = NoCall
    /\ MainIdle

UpdateInitScene == CallInitScene({NoArg})
UpdateApplyPlan == CallApplyPlan({Al}, {PlanWave}, {LlmFail}, MaxApiTurns)
UpdateFromOutcome == CallUpdateFromOutcome({o_nods, o_helps}, JsonReplies)

UpdateNext ==
    \/ UpdateInitScene
    \/ UpdateApplyPlan
    \/ UpdateFromOutcome

UpdateSpec == UpdateInit /\ [][UpdateNext]_vars

CharacterStates == wa.world_state.character_states

\* C11: update_from_outcome(o) never raises and always records the event:
\* after it returns o is the last element of recent events, whether the
\* service returned well-formed deltas, invalid JSON, JSON of the wrong shape
\* or type, or failed.
C11_OutcomeAlwaysRecorded ==
    (last.op = "update_from_outcome") =>
        /\ ~last.raised
        /\ RecentEvents # <<>>
        /\ RecentEvents[Len(RecentEvents)] = last.args.outcome

C11_Witness ==
    /\ last.op = "update_from_outcome"
    /\ ~last.args.llm_ok
    /\ Len(RecentEvents) = 2
    /\ RecentEvents[1] # last.args.outcome
    /\ RecentEvents[2] = last.args.outcome

\* the n most recent elements of xs in their order, none for n = 0
MostRecent(xs, n) ==
    [i \in 1..Min(n, Len(xs)) |-> xs[Len(xs) - Min(n, Len(xs)) + i]]

\* C12: after any sequence of init_scene and update_from_outcome calls the
\* length of recent events never exceeds recent_events_history_limit (for
\* every configured limit, 0 and 1 included) and the retained entries are the
\* most recent ones in their original order: each call keeps the newest
\* `limit` entries of the list extended by the outcome.
C12_RecentEventsBounded ==
    [][ /\ Len(RecentEvents') <= wa'.recent_events_history_limit
        /\ (last'.op = "update_from_outcome") =>
              RecentEvents' = MostRecent(Append(RecentEvents, last'.args.outcome),
                                         wa.recent_events_history_limit)
      ]_vars

\* C13: apply_plan, update_from_outcome and init_scene never replace the state
\* object of a character and never add or remove entries of the id-to-state
\* map: the object held for a character after the call is the one held
\* before (so a delta written by update_from_outcome is seen through a handle
\* taken earlier), distinct characters hold distinct objects, and apply_plan
\* changes no character's location.
C13_ReferenceStability ==
    [][ (last'.op \in {"apply_plan", "update_from_outcome", "init_scene"}) =>
            /\ DOMAIN CharacterStates' = DOMAIN CharacterStates
            /\ \A c \in DOMAIN CharacterStates :
                  CharacterStates'[c].oid = CharacterStates[c].oid
            /\ \A c, d \in DOMAIN CharacterStates' :
                  (c # d) => (CharacterStates'[c].oid # CharacterStates'[d].oid)
            /\ (last'.op = "apply_plan") =>
                  \A c \in DOMAIN CharacterStates :
                      CharacterStates'[c].location = CharacterStates[c].location
      ]_vars

C13_Witness ==
    /\ last.op = "update_from_outcome"
    /\ CharacterStates[Al].location = "old_ruins"
    /\ CharacterStates[Al].oid = 1
    /\ CharacterStates[Al].conditions = <<>>
    /\ wa.world_state.time_of_day = "morning"

----------------------------------------------------------------------------
(* FrameSpec: scenes are opened while characters have moved, gained         *)
(* conditions, changed mood and built up relationships                      *)

FrameInit ==
    /\ wa = WorldAgentNew(WorldFree, ApiCast.ids, ApiCast.states)
    /\ relationships = <<>>
    /\ last = NoCall
    /\ MainIdle

FrameInitScene == CallInitScene({NoArg, 2})
FrameApplyPlan ==
    CallApplyPlan({Al}, {PlanHelpBo},
                  {LlmFail, LlmText(r_quoted_nods), LlmText(o_helps)}, MaxApiTurns)
FrameUpdateFromOutcome ==
    CallUpdateFromOutcome({o_helps},
                          {JsonObject(DictOf([x \in {Al} |-> "old_ruins"]),
                                      DictOf([x \in {Al} |-> <<"tired">>]),
                                      DictOf([time_of_day |-> "evening"]))})
FrameUpdateCharacterMood == CallUpdateCharacterMood({Al}, Moods)

FrameNext ==
    \/ FrameInitScene
    \/ FrameApplyPlan
    \/ FrameUpdateFromOutcome
    \/ FrameUpdateCharacterMood

FrameSpec == FrameInit /\ [][FrameNext]_vars

\* C14: init_scene(n) sets the scene id to scene n (with no argument, to the
\* previous scene number + 1), sets turn_number to 0, empties recent events
\* and resets the stagnation counter, and leaves every character's location,
\* conditions and mood, the time of day, the active-character list and the
\* relationship graph unchanged.
C14_InitSceneFrame ==
    [][ (last'.op = "init_scene") =>
            /\ wa'.world_state.current_scene_id =
                  SceneId(IF last'.args.scene_number = NoArg
                          THEN SceneNumberOf(wa.world_state.current_scene_id) + 1
                          ELSE last'.args.scene_number)
            /\ TurnNumber' = 0
            /\ RecentEvents' = <<>>
            /\ StagnationCounter' = 0
            /\ CharacterStates' = CharacterStates
            /\ wa'.world_state.time_of_day = wa.world_state.time_of_day
            /\ wa'.world_state.active_characters = wa.world_state.active_characters
            /\ relationships' = relationships
      ]_vars

C14_Witness ==
    /\ last.op = "init_scene"
    /\ last.args.scene_number = NoArg
    /\ wa.world_state.current_scene_id = SceneId(3)
    /\ CharacterStates[Al].location = "old_ruins"
    /\ CharacterStates[Al].conditions # <<>>
    /\ CharacterStates[Al].current_mood # MoodVector
    /\ wa.world_state.time_of_day = "evening"
    /\ get_state(relationships, Al, Bo).trust > DefaultRelationship.trust

\* apply_plan(Al, help Bo) answered with an outcome containing "helps", the
\* two being active and at the same location before the call
HelpedBo ==
    /\ last'.op = "apply_plan"
    /\ last'.args.actor = Al
    /\ last'.args.action = a_help
    /\ Contains(last'.out, k_helps)
    /\ {Al, Bo} \subseteq Range(wa.world_state.active_characters)
    /\ CharacterStates[Al].location = CharacterStates[Bo].location

\* the adjustments apply_plan derives from the outcome it returned
HelpAdjustments == InterpretOutcome(Al, last'.out, {Al, Bo})

DirectionRatio(adjustments) ==
    /\ Len(adjustments) = 2
    /\ adjustments[1][1] = Al /\ adjustments[1][2] = Bo
    /\ adjustments[2][1] = Bo /\ adjustments[2][2] = Al
    /\ Abs(adjustments[1][3]) > Abs(adjustments[2][3])
    /\ 10 * adjustments[2][3] = 8 * adjustments[1][3]

\* C20 as stated: when apply_plan(A, help B) yields an outcome containing
\* "helps", getState(A,B).trust after the call is strictly greater than before,
\* whatever the relationship's state before the call, and the A to B
\* adjustment is larger in magnitude than the B to A one (ratio 0.8).
C20_TrustStrictlyGreater ==
    [][ HelpedBo =>
            /\ get_state(relationships', Al, Bo).trust
                  > get_state(relationships, Al, Bo).trust
            /\ DirectionRatio(HelpAdjustments)
      ]_vars

\* C20 corrected: trust is clamped to 1.0, so after the call it is the
\* previous trust plus both adjustments (0.05 and 0.04, both applied to the one
\* state the pair shares) capped at 1.0: strictly greater when the previous
\* trust was below 1.0, unchanged at 1.0 otherwise; the A to B adjustment
\* is larger in magnitude than the B to A one (ratio 0.8).
C20_TrustGrowsUpToClamp ==
    [][ HelpedBo =>
            LET adjustments == HelpAdjustments
                before == get_state(relationships, Al, Bo).trust
                after == get_state(relationships', Al, Bo).trust
            IN  /\ DirectionRatio(adjustments)
                /\ after = Min(1000, before + adjustments[1][3] + adjustments[2][3])
                /\ (before < 1000) => (after > before)
      ]_vars

C20_Witness ==
    /\ last.op = "apply_plan"
    /\ last.args.actor = Al
    /\ Contains(last.out, k_helps)
    /\ get_state(relationships, Al, Bo).trust = 1000
    /\ get_state(relationships, Al, Bo).affinity = 6 * 36

----------------------------------------------------------------------------
(* EventSpec: event injection (should_inject_event, generate_event) between *)
(* scene openings and scene-end evaluations, in free and scripted worlds,   *)
(* with and without a generation service                                    *)

EventInit ==
    /\ \E cfg \in ApiWorlds, service \in BOOLEAN :
          wa = [WorldAgentNew(cfg[1], ApiCast.ids, ApiCast.states)
                   EXCEPT !.script_mode = cfg[2], !.llm_interface = service]
    /\ relationships = <<>>
    /\ last = NoCall
    /\ MainIdle

\* the replies a call can get: without a service every request fails
ServiceReplies(Replies) == IF wa.llm_interface THEN Replies ELSE {LlmFail}

EventInitScene == CallInitScene({NoArg, 1})
EventJudgeSceneEnd ==
    CallJudgeSceneEnd({<<EntryHelps, EntryHelps, EntryHelps>>}, ServiceReplies({LlmFail}))
EventShouldInjectEvent == CallShouldInjectEvent(ServiceReplies(YesNoReplies), InjectDraws)
EventGenerateEvent ==
    CallGenerateEvent(ServiceReplies(EventReplies \cup {LlmText(<<>>)}), {1, 5})

EventNext ==
    \/ EventInitScene
    \/ EventJudgeSceneEnd
    \/ EventShouldInjectEvent
    \/ EventGenerateEvent

EventSpec == EventInit /\ [][EventNext]_vars

EventPool == wa.world_definition.world_events_pool

\* the index in the pool of the event the current beat triggers, 0 when the
\* pool does not hold it
TriggeredEvent == FindEvent(EventPool, wa.current_beat[1].triggers_event)

\* C16: generate_event returns a non-empty string on every path: scripted
\* beat event, random pick from the pool (also when the event's description is
\* missing or empty), service-generated detail (for every text the service may
\* return, an empty or quote-only reply included), service failure, and no
\* service configured.
C16_EventNeverEmpty ==
    (last.op = "generate_event") => (~last.raised /\ last.out # <<>>)

\* C17 as stated: in scripted mode with a current beat whose triggered event
\* is in the pool, generate_event returns that event's description (before
\* the random pick and the service), adds the beat's id to the completed beats
\* and clears the current beat, so the following should_inject_event is not
\* forced to true by that beat; a completed beat id is never removed.
C17_ReturnsDescription ==
    [][ /\ wa.completed_beats \subseteq wa'.completed_beats
        /\ (last'.op = "generate_event" /\ BeatTriggersEvent(wa) /\ TriggeredEvent # 0) =>
              /\ last'.out = EventPool[TriggeredEvent].description
              /\ ~last'.consulted
              /\ wa.current_beat[1].beat_id \in wa'.completed_beats
              /\ wa'.current_beat = <<>>
              /\ ~BeatTriggersEvent(wa')
      ]_vars

\* C17 corrected: the description is returned when it is not empty, and the
\* text "Something happens." when the pooled event has no or an empty
\* description; the rest as stated, and a should_inject_event call that
\* follows directly is answered by the service or the fallback, not forced.
C17_ScriptedEventFirst ==
    [][ /\ wa.completed_beats \subseteq wa'.completed_beats
        /\ (last'.op = "generate_event" /\ BeatTriggersEvent(wa) /\ TriggeredEvent # 0) =>
              /\ last'.out = IF EventPool[TriggeredEvent].description # <<>>
                             THEN EventPool[TriggeredEvent].description
                             ELSE e_something_happens
              /\ ~last'.consulted
              /\ wa.current_beat[1].beat_id \in wa'.completed_beats
              /\ wa'.current_beat = <<>>
              /\ ~BeatTriggersEvent(wa')
        /\ (last.op = "generate_event" /\ wa.current_beat = <<>>
              /\ last'.op = "should_inject_event") => last'.consulted
      ]_vars

C17_Witness ==
    /\ last.op = "generate_event"
    /\ last.out = d_storm
    /\ wa.completed_beats = {"intro", "arrival"}
    /\ wa.current_beat = <<>>
    /\ wa.world_state.current_scene_id = SceneId(2)

\* C18: a scripted beat whose triggered event id is not in the pool is
\* treated as "no event": generate_event produces no world event on behalf of
\* that beat, and afterwards the beat does not force an event injection on
\* the following turns.
C18_MissingEventIsNoEvent ==
    [][ (last'.op = "generate_event" /\ BeatTriggersEvent(wa) /\ TriggeredEvent = 0) =>
            /\ last'.out = <<>>
            /\ ~BeatTriggersEvent(wa')
      ]_vars

\* "yes" within the first 10 characters of the trimmed, lower-cased answer
YesInFirstTen(reply) ==
    LET answer == Lower(Strip(reply))
    IN  \E i \in 1..8 :
            /\ i + 2 <= Len(answer)
            /\ answer[i] = "y" /\ answer[i + 1] = "e" /\ answer[i + 2] = "s"

\* C19: should_inject_event never raises; it is true without consulting the
\* service whenever scripted mode has a current beat carrying a triggered
\* event; on a service answer it is true if the answer has "yes" in its first
\* 10 characters or else if the random draw is below the override chance
\* (0.05); on service failure it is true if the draw is below the fallback
\* chance (0.15) or the stagnation counter is at least threshold - 1, false
\* otherwise. It changes no world state.
C19_InjectionDecision ==
    [][ (last'.op = "should_inject_event") =>
            /\ ~last'.raised
            /\ wa' = wa
            /\ relationships' = relationships
            /\ IF wa.script_mode /\ wa.current_beat # <<>>
                    /\ wa.current_beat[1].triggers_event # ""
               THEN last'.ret /\ ~last'.consulted
               ELSE IF last'.args.llm_ok
                    THEN last'.ret = (YesInFirstTen(last'.args.reply)
                                         \/ last'.args.draw < 5)
                    ELSE last'.ret = (\/ last'.args.draw < 15
                                      \/ StagnationCounter
                                            >= stagnation_detection_threshold - 1)
      ]_vars

C19_Witness ==
    /\ last.op = "should_inject_event"
    /\ ~last.args.llm_ok
    /\ last.args.draw >= 15
    /\ StagnationCounter = stagnation_detection_threshold - 1
    /\ last.ret
    /\ last.consulted

----------------------------------------------------------------------------
(* RelSpec: the RelationshipManager driven directly with get_state,         *)
(* update_state and adjust_state on a few pairs, pairs of one id included   *)

Cy == <<"C", "y">>
RelIds == {Al, Bo, Cy}
\* the pairs calls are issued for, in the order of their arguments
RelPairs == { <<Al, Bo>>, <<Bo, Al>>, <<Cy, Al>>, <<Bo, Bo>> }
\* deltas in thousandths, far beyond the ranges included
RelTrustDeltas == {-3000, 500}
RelAffinityDeltas == {-3000, 1000}
RelStatuses == {"", "allies"}
RelStates == { DefaultRelationship,
               [trust |-> 1000, affinity |-> -1000, status |-> "rivals"] }

\* the result slot of a call that raised
NoState == [trust |-> 0, affinity |-> 0, status |-> "none"]

\* what is observed of a call: its arguments, whether it raised, and the state
\* it returned (get_state, adjust_state) or stored (update_state)
RelCall(op, char_a_id, char_b_id, raised, ret, trust_delta, affinity_delta, new_status) ==
    [op |-> op, char_a_id |-> char_a_id, char_b_id |-> char_b_id, raised |-> raised,
     ret |-> ret, trust_delta |-> trust_delta, affinity_delta |-> affinity_delta,
     new_status |-> new_status]

RelInit ==
    /\ wa = WorldAgentNew(WorldFree, ApiCast.ids, ApiCast.states)
    /\ relationships = <<>>
    /\ last = RelCall("none", <<>>, <<>>, FALSE, NoState, 0, 0, "")
    /\ MainIdle

RelGetState ==
    /\ \E p \in RelPairs :
          IF relationship_key_raises(p[1], p[2])
          THEN last' = RelCall("get_state", p[1], p[2], TRUE, NoState, 0, 0, "")
          ELSE last' = RelCall("get_state", p[1], p[2], FALSE,
                               get_state(relationships, p[1], p[2]), 0, 0, "")
    /\ UNCHANGED <<wa, relationships, main_vars>>

RelUpdateState ==
    /\ \E p \in RelPairs, new_state \in RelStates :
          IF relationship_key_raises(p[1], p[2])
          THEN /\ last' = RelCall("update_state", p[1], p[2], TRUE, NoState, 0, 0, "")
               /\ relationships' = relationships
          ELSE /\ relationships' = update_state(relationships, p[1], p[2], new_state)
               /\ last' = RelCall("update_state", p[1], p[2], FALSE, new_state, 0, 0, "")
    /\ UNCHANGED <<wa, main_vars>>

RelAdjustState ==
    /\ \E p \in RelPairs, trust_delta \in RelTrustDeltas,
          affinity_delta \in RelAffinityDeltas, new_status \in RelStatuses :
          IF relationship_key_raises(p[1], p[2])
          THEN /\ last' = RelCall("adjust_state", p[1], p[2], TRUE, NoState,
                                  trust_delta, affinity_delta, new_status)
               /\ relationships' = relationships
          ELSE /\ relationships' = adjust_state(relationships, p[1], p[2],
                                                trust_delta, affinity_delta, new_status)
               /\ last' = RelCall("adjust_state", p[1], p[2], FALSE,
                                  get_state(relationships', p[1], p[2]),
                                  trust_delta, affinity_delta, new_status)
    /\ UNCHANGED <<wa, main_vars>>

RelNext ==
    \/ RelGetState
    \/ RelUpdateState
    \/ RelAdjustState

RelSpec == RelInit /\ [][RelNext]_vars

\* C21: the relationship store is symmetric: after any sequence of
\* update_state and adjust_state calls get_state(a,b) equals get_state(b,a)
\* for all distinct a, b, an update or adjustment issued as (a,b) is observed
\* identically through (b,a), and records are never deleted.
C21_SymmetricStore ==
    [][ /\ \A a, b \in RelIds :
              (a # b) => (get_state(relationships', a, b) = get_state(relationships', b, a))
        /\ DOMAIN relationships \subseteq DOMAIN relationships'
        /\ (last'.op \in {"update_state", "adjust_state"} /\ ~last'.raised) =>
              /\ get_state(relationships', last'.char_a_id, last'.char_b_id) = last'.ret
              /\ get_state(relationships', last'.char_b_id, last'.char_a_id) = last'.ret
      ]_vars

C21_Witness ==
    /\ last.op = "update_state"
    /\ last.char_a_id = Bo /\ last.char_b_id = Al
    /\ last.ret.status = "rivals"
    /\ get_state(relationships, Al, Bo) = last.ret
    /\ Cardinality(DOMAIN relationships) = 2

Clamp(x, lo, hi) == IF x < lo THEN lo ELSE IF x > hi THEN hi ELSE x

\* C22: after any sequence of adjust_state calls with arbitrary (also very
\* large or negative) deltas every stored relationship has trust in [0,1] and
\* affinity in [-1,1]; each adjust_state result is clamp(current + delta),
\* with the status replaced only when a new status is given.
C22_AdjustClamps ==
    [][ /\ \A k \in DOMAIN relationships' :
              /\ relationships'[k].trust \in 0..1000
              /\ relationships'[k].affinity \in -1000..1000
        /\ (last'.op = "adjust_state" /\ ~last'.raised) =>
              LET current == get_state(relationships, last'.char_a_id, last'.char_b_id)
              IN  /\ last'.ret.trust = Clamp(current.trust + last'.trust_delta, 0, 1000)
                  /\ last'.ret.affinity =
                        Clamp(current.affinity + last'.affinity_delta, -1000, 1000)
                  /\ last'.ret.status = IF last'.new_status = "" THEN current.status
                                        ELSE last'.new_status
      ]_vars

C22_Witness ==
    /\ last.op = "adjust_state"
    /\ last.trust_delta = -3000
    /\ last.new_status = ""
    /\ last.ret = [trust |-> 0, affinity |-> 0, status |-> "rivals"]

\* the state of the pair (Al, Bo) after adjust_state with d1 and then with d2,
\* each a pair <<trust_delta, affinity_delta>>
AdjustedTwice(d1, d2) ==
    get_state(adjust_state(adjust_state(relationships, Al, Bo, d1[1], d1[2], ""),
                           Bo, Al, d2[1], d2[2], ""),
              Al, Bo)

RelDeltas == RelTrustDeltas \X RelAffinityDeltas

SameSign(x, y) == (x >= 0 /\ y >= 0) \/ (x <= 0 /\ y <= 0)

C24_SelfPairRejected ==
    [][ (/\ last'.op \in {"get_state", "adjust_state", "update_state"}
         /\ last'.char_a_id = last'.char_b_id) =>
            /\ last'.raised
            /\ relationships' = relationships
      ]_vars

C24_Witness ==
    /\ last.op = "update_state"
    /\ last.char_a_id = Bo /\ last.char_b_id = Bo
    /\ last.raised
    /\ relationships # <<>>

\* C25: get_state on a pair with no record returns the default state (trust
\* 0.5, affinity 0.0, status "neutral") and does not mutate the store: no
\* record is created by a lookup and the set of stored pairs is the same
\* before and after it.
C25_LookupIsPure ==
    [][ (last'.op = "get_state" /\ ~last'.raised) =>
            /\ relationships' = relationships
            /\ DOMAIN relationships' = DOMAIN relationships
            /\ ({last'.char_a_id, last'.char_b_id} \notin DOMAIN relationships) =>
                  last'.ret = [trust |-> 500, affinity |-> 0, status |-> "neutral"]
      ]_vars

C25_Witness ==
    /\ last.op = "get_state"
    /\ last.char_a_id = Cy /\ last.char_b_id = Al
    /\ last.ret = [trust |-> 500, affinity |-> 0, status |-> "neutral"]
    /\ DOMAIN relationships = {{Al, Bo}}

----------------------------------------------------------------------------
(* MemoryManager: remember and retrieve called in any order (memory.py).    *)

\* remember calls made in all, enough to overflow one short-term list
MaxRemembers == 12
\* remember calls made for the second actor
MaxOtherRemembers == 2

MemActors == {Al, Bo}
MemLimits == {0, 1, 5}

mem_frame == <<wa, relationships, pc, scene_num, turn_num,
               current_scene_log_entries, turn, agent_moods>>

\* the last call: its arguments, what it returned, the manager before it
MemCall(op, actor_name, max_results, ret, before) ==
    [op |-> op, actor_name |-> actor_name, max_results |-> max_results,
     ret |-> ret, before |-> before]

MemInit ==
    /\ wa = WorldAgentNew(WorldFree, ApiCast.ids, ApiCast.states)
    /\ relationships = <<>>
    /\ last = MemCall("none", <<>>, 0, <<>>, MemoryManagerNew)
    /\ MainIdle

MemRemember ==
    /\ Len(memory.ltm_store) < MaxRemembers
    /\ \E actor_name \in MemActors :
          /\ actor_name = Bo =>
                Len(EntriesOf(memory.ltm_store, Bo)) < MaxOtherRemembers
          /\ memory' = remember(memory, actor_name, "saw", "calm")
          /\ last' = MemCall("remember", actor_name, 0,
                             <<memory'.ltm_store[Len(memory'.ltm_store)]>>, memory)
    /\ UNCHANGED mem_frame

MemRetrieve ==
    /\ \E actor_name \in MemActors \cup {Cy}, max_results \in MemLimits :
          last' = MemCall("retrieve", actor_name, max_results,
                          retrieve(memory, actor_name, max_results), memory)
    /\ UNCHANGED <<memory, mem_frame>>

MemNext == MemRemember \/ MemRetrieve

MemSpec == MemInit /\ [][MemNext]_vars

\* C26: whatever remember calls were made, no actor's short-term list is
\* longer than the capacity of 10 and each holds that actor's most recent
\* entries in the order they were added, the oldest having been evicted
\* first; a remember call for one actor leaves every other actor's
\* short-term list as it was; the long-term log keeps every entry.
C26_ShortTermBounded ==
    /\ \A a \in DOMAIN memory.stm :
          /\ Len(memory.stm[a]) <= 10
          /\ memory.stm[a] = LastN(EntriesOf(memory.ltm_store, a), 10)
    /\ \A i \in 1..Len(memory.ltm_store) : memory.ltm_store[i].timestamp = i
    /\ last.op = "remember" =>
          /\ \A a \in DOMAIN last.before.stm :
                a # last.actor_name =>
                   /\ a \in DOMAIN memory.stm
                   /\ memory.stm[a] = last.before.stm[a]
          /\ memory.ltm_store = last.before.ltm_store \o last.ret

\* the first actor's list overflowed while the other's stayed whole
C26_Witness ==
    /\ last.op = "remember" /\ last.actor_name = Al
    /\ Len(EntriesOf(memory.ltm_store, Al)) = 11
    /\ Len(memory.stm[Al]) = 10
    /\ memory.stm[Al][1] = EntriesOf(memory.ltm_store, Al)[2]
    /\ Bo \in DOMAIN memory.stm /\ Len(memory.stm[Bo]) = 1
    /\ Len(memory.ltm_store) = 12

\* entry timestamps strictly decreasing
NewestFirst(xs) ==
    \A i \in 1..Len(xs) - 1 : xs[i].timestamp > xs[i + 1].timestamp

\* C27: retrieve(actor, limit) returns that actor's entries of the
\* long-term log, most recent first, at most limit of them: all of them
\* when there are fewer, none for an unknown actor or for limit 0; it never
\* returns another actor's entry and leaves the long-term log, the
\* short-term lists and the summaries unchanged.
C27_RetrieveNewestFirst ==
    last.op = "retrieve" =>
       LET mine == { i \in 1..Len(memory.ltm_store) :
                       memory.ltm_store[i].actor_name = last.actor_name }
       IN  /\ \A i \in 1..Len(last.ret) :
                 /\ last.ret[i].actor_name = last.actor_name
                 /\ last.ret[i].timestamp \in mine
                 /\ memory.ltm_store[last.ret[i].timestamp] = last.ret[i]
           /\ NewestFirst(last.ret)
           /\ Len(last.ret) = Min(last.max_results, Cardinality(mine))
           /\ \A i \in mine :
                 (\E j \in 1..Len(last.ret) : last.ret[j].timestamp < i) =>
                    \E j \in 1..Len(last.ret) : last.ret[j].timestamp = i
           /\ memory = last.before

\* five of seven entries returned, with the other actor's entries between
C27_Witness ==
    /\ last.op = "retrieve" /\ last.actor_name = Al /\ last.max_results = 5
    /\ Len(EntriesOf(memory.ltm_store, Al)) = 7
    /\ Len(EntriesOf(memory.ltm_store, Bo)) = 2
    /\ Len(last.ret) = 5
    /\ last.ret[1].timestamp = 9 /\ last.ret[5].timestamp = 3

----------------------------------------------------------------------------
(* MemoryManager: scene summaries written and read back (memory.py).        *)

SummaryScenes == {1, 2, 3}
SummaryCounts == {0, 1, 2, 3, 5}

\* scene logs: empty, one entry, two entries, an entry without its actor
SummaryLogs ==
    { <<>>,
      <<[actor |-> Al, outcome |-> o_nods]>>,
      <<[actor |-> Al, outcome |-> o_helps], [actor |-> Bo, outcome |-> o_nods]>>,
      <<[outcome |-> o_nods]>> }

\* the last call: its arguments, what it returned, the manager before it
SummaryCall(op, scene_number, scene_log, count, ret, before) ==
    [op |-> op, scene_number |-> scene_number, scene_log |-> scene_log,
     count |-> count, ret |-> ret, before |-> before]

SummaryInit ==
    /\ wa = WorldAgentNew(WorldFree, ApiCast.ids, ApiCast.states)
    /\ relationships = <<>>
    /\ last = SummaryCall("none", 0, <<>>, 0, <<>>, MemoryManagerNew)
    /\ MainIdle

SummaryRemember ==
    /\ memory.ltm_store = <<>>
    /\ memory' = remember(memory, Al, "saw", "calm")
    /\ last' = SummaryCall("remember", 0, <<>>, 0, <<>>, memory)
    /\ UNCHANGED mem_frame

SummariseScene ==
    /\ \E scene_number \in SummaryScenes, scene_log \in SummaryLogs :
          LET res == summarise_scene(memory, scene_number, scene_log)
          IN  /\ memory' = res.mm
              /\ last' = SummaryCall("summarise_scene", scene_number, scene_log, 0,
                                     res.ret, memory)
    /\ UNCHANGED mem_frame

SummaryRecent ==
    /\ \E count \in SummaryCounts :
          last' = SummaryCall("get_recent_scene_summaries", 0, <<>>, count,
                              get_recent_scene_summaries(memory, count), memory)
    /\ UNCHANGED <<memory, mem_frame>>

SummaryNext == SummaryRemember \/ SummariseScene \/ SummaryRecent

SummarySpec == SummaryInit /\ [][SummaryNext]_vars

\* text.split("\n")
RECURSIVE SplitLines(_)
SplitLines(text) ==
    IF \A i \in 1..Len(text) : text[i] # "\n" THEN <<text>>
    ELSE LET cut == CHOOSE i \in 1..Len(text) :
                       /\ text[i] = "\n"
                       /\ \A j \in 1..(i - 1) : text[j] # "\n"
         IN  <<SubSeq(text, 1, cut - 1)>> \o SplitLines(SubSeq(text, cut + 1, Len(text)))

\* C28: summarise_scene(n, []) returns null and creates no entry, a summary
\* already stored for n staying as it is; summarise_scene(n, log) with a
\* non-empty log stores exactly one summary under n, retrievable and equal
\* to the text returned, made of one line per log entry in log order; it
\* replaces an earlier summary for n and leaves the summaries of the other
\* scene numbers unchanged.
C28_SummariseScene ==
    last.op = "summarise_scene" =>
       IF last.scene_log = <<>>
       THEN /\ last.ret = <<>>
            /\ memory = last.before
       ELSE LET lines == SplitLines(last.ret)
            IN  /\ Len(lines) = Len(last.scene_log)
                /\ \A i \in 1..Len(lines) : lines[i] = SummaryLine(last.scene_log[i])
                /\ DOMAIN memory.scene_summaries =
                      DOMAIN last.before.scene_summaries \cup {last.scene_number}
                /\ get_scene_summary(memory, last.scene_number) = last.ret
                /\ \A n \in DOMAIN last.before.scene_summaries :
                      n # last.scene_number =>
                         memory.scene_summaries[n] = last.before.scene_summaries[n]
                /\ memory.stm = last.before.stm
                /\ memory.ltm_store = last.before.ltm_store

\* a two-line summary replaced the one-line summary of scene 2 while scene 1
\* kept its own
C28_Witness ==
    /\ last.op = "summarise_scene" /\ last.scene_number = 2
    /\ Len(last.scene_log) = 2
    /\ 2 \in DOMAIN last.before.scene_summaries
    /\ last.before.scene_summaries[2] # last.ret
    /\ memory.scene_summaries[2] = last.ret
    /\ 1 \in DOMAIN memory.scene_summaries
    /\ memory.ltm_store # <<>>

\* the summaries of the given scenes, ascending, tagged and separated
RECURSIVE TaggedAscending(_, _)
TaggedAscending(summaries, scenes) ==
    LET first == CHOOSE n \in scenes : \A k \in scenes : n <= k
        rest == scenes \ {first}
    IN  s_summary_of_scene \o IntToStr(first) \o <<":", "\n">> \o summaries[first]
           \o (IF rest = {} THEN <<>>
               ELSE <<"\n", "\n", "-", "-", "-", "\n", "\n">>
                       \o TaggedAscending(summaries, rest))

\* C29: the recent-summaries query returns the summaries of the count
\* highest scene numbers in ascending scene order (all of them when there
\* are fewer), each tagged with its scene number and joined by the
\* separator; with no summaries or with count 0 it returns the sentinel
\* "No scene summaries are available yet.", never the empty string or null;
\* it does not change the store.
C29_RecentSummaries ==
    last.op = "get_recent_scene_summaries" =>
       LET stored == DOMAIN memory.scene_summaries
           highest == { n \in stored :
                          Cardinality({ k \in stored : k > n }) < last.count }
       IN  /\ memory = last.before
           /\ last.ret # <<>>
           /\ IF stored = {} \/ last.count = 0
              THEN last.ret = s_no_summaries
              ELSE last.ret = TaggedAscending(memory.scene_summaries, highest)

\* two of three summaries returned, scene 2 before scene 3
C29_Witness ==
    /\ last.op = "get_recent_scene_summaries" /\ last.count = 2
    /\ DOMAIN memory.scene_summaries = {1, 2, 3}
    /\ memory.scene_summaries[1] # memory.scene_summaries[2]
    /\ last.ret = TaggedAscending(memory.scene_summaries, {2, 3})

----------------------------------------------------------------------------
(* PerspectiveFilter.get_observers over a world whose characters move.      *)

\* an id the world state does not hold
Zed == <<"Z", "e", "d">>

ObserverCast == Cast(<<Al, Bo, Cy>>, <<8, 6, 4>>)
ObserverPlaces == {"loc1", "loc2"}
ObserverLocations == {NoLocation, "loc1", "loc2", "loc3"}
ObserverReplies ==
    { ObserverFailure, ObserverInvalid, ObserverNotList, ObserverMixedList,
      ObserverList(<<>>), ObserverList(<<Al>>), ObserverList(<<Bo, Al>>),
      ObserverList(<<Al, Zed>>), ObserverList(<<Zed>>), ObserverList(<<Cy, Cy>>) }

\* the last call: its arguments and what it returned
ObserverCall(op, world_state, reply, event_location_id, res) ==
    [op |-> op, world_state |-> world_state, reply |-> reply,
     event_location_id |-> event_location_id,
     ret |-> res.ret, raised |-> res.raised]

ObserverInit ==
    /\ wa = WorldAgentNew(WorldFree, ObserverCast.ids, ObserverCast.states)
    /\ relationships = <<>>
    /\ last = ObserverCall("none", wa.world_state, ObserverInvalid, NoLocation,
                           [ret |-> <<>>, raised |-> FALSE])
    /\ MainIdle

\* a character's location is reassigned (world_agent.py:1023-1027)
ObserverMove ==
    /\ \E c \in Range(ObserverCast.ids), place \in ObserverPlaces :
          wa' = [wa EXCEPT !.world_state.character_states[c].location = place]
    /\ UNCHANGED <<relationships, last, main_vars>>

ObserverGetObservers ==
    /\ \E reply \in ObserverReplies, event_location_id \in ObserverLocations :
          last' = ObserverCall("get_observers", wa.world_state, reply,
                               event_location_id,
                               get_observers(wa.world_state, reply, event_location_id))
    /\ UNCHANGED <<wa, relationships, main_vars>>

ObserverNext == ObserverMove \/ ObserverGetObservers

ObserverSpec == ObserverInit /\ [][ObserverNext]_vars

\* C30: get_observers never raises and never returns an id that is not a
\* character of the world state: of a well-formed answer (a list of
\* strings) it keeps exactly the ids that exist; on a malformed answer or a
\* failure of the service it returns, the same in both cases, exactly the
\* characters whose location equals event_location_id, and the empty list
\* when no location is given.
C30_ObserversExist ==
    LET character_states == last.world_state.character_states
        Exists(obs_id) == obs_id \in DOMAIN character_states
    IN  /\ last.op = "get_observers" =>
              /\ ~last.raised
              /\ \A i \in 1..Len(last.ret) : Exists(last.ret[i])
              /\ IF last.reply.kind = "list"
                 THEN last.ret = SelectSeq(last.reply.observers, Exists)
                 ELSE IF last.event_location_id = NoLocation
                 THEN last.ret = <<>>
                 ELSE /\ Range(last.ret) =
                           { c \in DOMAIN character_states :
                               character_states[c].location = last.event_location_id }
                      /\ Cardinality(Range(last.ret)) = Len(last.ret)
        /\ \A event_location_id \in ObserverLocations :
              get_observers(wa.world_state, ObserverInvalid, event_location_id)
                 = get_observers(wa.world_state, ObserverFailure, event_location_id)

\* an invented id was dropped from the answer while two of the three
\* characters stood elsewhere
C30_Witness ==
    /\ last.op = "get_observers"
    /\ last.reply = ObserverList(<<Al, Zed>>)
    /\ last.ret = <<Al>>
    /\ last.world_state.character_states[Bo].location = "loc2"
    /\ last.world_state.character_states[Cy].location = "loc1"

----------------------------------------------------------------------------
(* PerspectiveFilter.get_subjective_event and get_view_for, asked between   *)
(* moves and turns of the world.                                            *)

FilterIds == {Al, Zed}
PerceivedReplies ==
    { JsonFailure, JsonNotObject, JsonDict({}, {}, NoFields),
      JsonDict({"perceived_description"}, {},
               [perceived_description |-> r_i_heard]),
      JsonDict({"perceived_description"}, {"perceived_description"}, NoFields),
      JsonDict({"inferred_actor"}, {}, [inferred_actor |-> Cy]),
      JsonDict({"perceived_description", "inferred_actor", "inferred_target",
                "observer_id", "timestamp"},
               {"inferred_target"},
               [perceived_description |-> r_i_heard, inferred_actor |-> Cy,
                observer_id |-> Bo, timestamp |-> <<"t", "1">>]) }

\* a complete answer describing the view of the character named in it
ViewAnswer(character_id) ==
    JsonDict({"character_id", "timestamp", "perceived_location_id",
              "perceived_location_description", "visible_characters",
              "inferred_context"},
             {},
             [character_id |-> character_id, timestamp |-> <<"t", "1">>,
              perceived_location_id |-> "loc2",
              perceived_location_description |-> <<"A sunny clearing.">>,
              visible_characters |-> <<Bo>>,
              inferred_context |-> "I am not alone."])

ViewReplies ==
    { JsonFailure, JsonNotObject, JsonDict({}, {}, NoFields),
      ViewAnswer(Al), ViewAnswer(Bo),
      JsonDict({"character_id", "timestamp"}, {},
               [character_id |-> Al, timestamp |-> <<"t", "1">>]),
      [ViewAnswer(Al) EXCEPT !.nulls = {"inferred_context"}],
      [ViewAnswer(Al) EXCEPT !.present = @ \cup {"active_focus_or_goal"},
                             !.nulls = {"active_focus_or_goal"}] }

\* the last call: its arguments and what it returned
FilterCall(op, world_state, id, factual_outcome, actor_id, target_id, reply, res) ==
    [op |-> op, world_state |-> world_state, id |-> id,
     factual_outcome |-> factual_outcome, actor_id |-> actor_id,
     target_id |-> target_id, reply |-> reply, ret |-> res.ret,
     called_service |-> res.called_service, raised |-> res.raised]

FilterInit ==
    /\ wa = WorldAgentNew(WorldFree, ObserverCast.ids, ObserverCast.states)
    /\ relationships = <<>>
    /\ last = FilterCall("none", wa.world_state, <<>>, <<>>, <<>>, <<>>, JsonNotObject,
                         [ret |-> NoFields, called_service |-> FALSE,
                          raised |-> FALSE])
    /\ MainIdle

\* a character's location is reassigned (world_agent.py:1023-1027)
FilterMove ==
    /\ \E place \in ObserverPlaces :
          wa' = [wa EXCEPT !.world_state.character_states[Al].location = place]
    /\ UNCHANGED <<relationships, last, main_vars>>

\* the turn counter advances (world_agent.py:637)
FilterTurn ==
    /\ wa.world_state.turn_number < MaxApiTurns
    /\ wa' = [wa EXCEPT !.world_state.turn_number = @ + 1]
    /\ UNCHANGED <<relationships, last, main_vars>>

FilterGetSubjectiveEvent ==
    /\ \E observer_id \in FilterIds, actor_id \in {<<>>, Bo}, target_id \in {<<>>, Al},
          reply \in PerceivedReplies :
          last' = FilterCall("get_subjective_event", wa.world_state, observer_id,
                             o_nods, actor_id, target_id, reply,
                             get_subjective_event(wa.world_state, observer_id, o_nods,
                                                  actor_id, target_id, reply))
    /\ UNCHANGED <<wa, relationships, main_vars>>

FilterGetViewFor ==
    /\ \E character_id \in FilterIds, reply \in ViewReplies :
          last' = FilterCall("get_view_for", wa.world_state, character_id,
                             <<>>, <<>>, <<>>, reply,
                             get_view_for(wa.world_state, character_id, reply))
    /\ UNCHANGED <<wa, relationships, main_vars>>

FilterNext ==
    \/ FilterMove
    \/ FilterTurn
    \/ FilterGetSubjectiveEvent
    \/ FilterGetViewFor

FilterSpec == FilterInit /\ [][FilterNext]_vars

\* the answer is no object or an object without keys
NoObjectAnswer(reply) ==
    reply.kind \in {"failure", "not_object"} \/ reply.present = {}

\* C31: get_subjective_event never raises; on a failure of the service or a
\* malformed (empty or non-object) answer it returns the default event: the
\* objective outcome, unmodified, behind the standard-perception marker, with
\* the given actor_id and target_id as inferred actor and target; in every
\* case the event returned carries the observer id and the timestamp of the
\* request, not values supplied by the service.
C31_SubjectiveEventDefault ==
    last.op = "get_subjective_event" =>
        /\ ~last.raised
        /\ last.ret.observer_id = last.id
        /\ last.ret.timestamp =
              s_scene_prefix \o last.world_state.current_scene_id \o s_turn_infix
                  \o IntToStr(last.world_state.turn_number)
        /\ (last.called_service /\ NoObjectAnswer(last.reply)) =>
              /\ last.ret.perceived_description =
                    s_standard_perception \o last.id \o s_paren_colon
                        \o last.factual_outcome
              /\ last.ret.inferred_actor = last.actor_id
              /\ last.ret.inferred_target = last.target_id

\* the service failed in the second turn and the given ids passed through
C31_Witness ==
    /\ last.op = "get_subjective_event"
    /\ last.reply = JsonFailure
    /\ last.id = Al /\ last.actor_id = Bo /\ last.target_id = Al
    /\ last.world_state.turn_number = 2
    /\ last.ret.inferred_actor = Bo
    /\ last.ret.perceived_description # last.factual_outcome

\* C32: get_view_for always returns a view and never raises: for an id the
\* world state does not hold it returns the minimal error view (location
\* "unknown", error marker in the context field, empty visible lists) without
\* calling the service; on a failure of the service, an answer that is no
\* object or one failing schema validation it returns the default view whose
\* perceived location is the character's actual location; it never modifies
\* the world state.
C32_ViewAlwaysReturned ==
    [][ (last' # last /\ last'.op = "get_view_for") =>
            LET held == last'.id \in DOMAIN wa.world_state.character_states
            IN  /\ ~last'.raised
                /\ wa' = wa
                /\ "perceived_location_id" \in DOMAIN last'.ret
                /\ ~held =>
                      /\ ~last'.called_service
                      /\ last'.ret.perceived_location_id = "unknown"
                      /\ last'.ret.inferred_context =
                            "Error: Character state missing, cannot generate full subjective view."
                      /\ last'.ret.visible_characters = <<>>
                      /\ last'.ret.visible_objects = <<>>
                /\ (held /\ (NoObjectAnswer(last'.reply) \/ ~ViewValidates(last'.reply))) =>
                      /\ last'.called_service
                      /\ last'.ret.perceived_location_id =
                            wa.world_state.character_states[last'.id].location
                      /\ last'.ret.inferred_context =
                            "Awaiting detailed subjective perception from LLM."
      ]_vars

\* the answer lacked required fields after the character had moved
C32_Witness ==
    /\ last.op = "get_view_for" /\ last.id = Al
    /\ last.reply.kind = "object" /\ last.reply.present = {"character_id", "timestamp"}
    /\ last.world_state.character_states[Al].location = "loc2"
    /\ last.ret.perceived_location_id = "loc2"
    /\ last.ret.perceived_location_description =
          <<"(Default basic perception) You are in ", "loc2", ".">>

\* C37: the view returned by get_view_for(c, world) always carries
\* character_id = c, whatever character_id the service put in its answer.
C37_ViewCarriesRequestedId ==
    last.op = "get_view_for" => last.ret.character_id = last.id

----------------------------------------------------------------------------
(* MoodSpec: the reflections of a run, each followed by the mood update of  *)
(* main.py:201-208.                                                          *)

\* starting moods as configured, out of range included
MoodStarts ==
    { [c \in MoodComponents |-> 0],
      [c \in MoodComponents |-> IF c = "joy" THEN 150 ELSE IF c = "fear" THEN 10 ELSE 0] }

MoodReplies ==
    { MoodFailure, MoodNotObject,
      MoodAnswer("absent", NoNumbers, {}),
      MoodAnswer("not_object", NoNumbers, {}),
      MoodAnswer("object", [fear |-> 40, surprise |-> 20], {}),
      MoodAnswer("object", [joy |-> 150, anger |-> -20], {}),
      MoodAnswer("object", [trust |-> 70], {"anger"}),
      MoodAnswer("object", [c \in MoodComponents |-> 100], {}) }

\* the last reflection: actor, answer and the stored mood before it
MoodCall(op, actor, reply, before) ==
    [op |-> op, actor |-> actor, reply |-> reply, before |-> before]

MoodInit ==
    /\ \E start \in MoodStarts :
          wa = WorldAgentNew(WorldFree, ApiCast.ids,
                             [c \in DOMAIN ApiCast.states |->
                                 [ApiCast.states[c] EXCEPT
                                     !.current_mood = MoodVectorNew(start)]])
    /\ relationships = <<>>
    /\ last = MoodCall("none", <<>>, MoodFailure, MoodVector)
    /\ MainIdle

\* reflection_output = actor_agent.reflect_sync(...);
\* world_agent.update_character_mood(actor_name, reflection_output.updated_mood)
MoodReflect ==
    /\ \E actor \in DOMAIN agent_moods, reply \in MoodReplies :
          LET res == reflect(agent_moods[actor], reply)
          IN  /\ agent_moods' = [agent_moods EXCEPT ![actor] = res.current_mood]
              /\ wa' = update_character_mood(wa, actor, res.updated_mood)
              /\ last' = MoodCall("reflect", actor, reply, get_character_mood(wa, actor))
    /\ UNCHANGED <<relationships, pc, scene_num, turn_num, current_scene_log_entries,
                   turn, memory>>

\* a scene is opened between reflections
MoodInitScene ==
    /\ SceneNumberOf(wa.world_state.current_scene_id) < MaxSceneNumber
    /\ wa' = init_scene(wa, NoArg)
    /\ UNCHANGED <<relationships, last, main_vars>>

MoodNext == MoodReflect \/ MoodInitScene

MoodSpec == MoodInit /\ [][MoodNext]_vars

\* C33: after any sequence of turns every component of every mood stored
\* in the world state lies in [0,1], out-of-range values of the service
\* being clamped; a reflect whose answer gives only some components leaves
\* each of the others at its prior value; a failed reflect leaves the mood
\* unchanged.
C33_MoodsInRange ==
    /\ \A c \in DOMAIN wa.world_state.character_states :
          \A m \in MoodComponents :
             /\ wa.world_state.character_states[c].current_mood[m] >= 0
             /\ wa.world_state.character_states[c].current_mood[m] <= 100
    /\ last.op = "reflect" =>
          LET after == wa.world_state.character_states[last.actor].current_mood
              answered == /\ last.reply.kind = "object"
                          /\ last.reply.mood_kind # "not_object"
                          /\ last.reply.non_numbers = {}
              given == IF last.reply.mood_kind = "object"
                       THEN DOMAIN last.reply.numbers ELSE {}
          IN  IF answered
              THEN \A m \in MoodComponents :
                      IF m \in given
                      THEN after[m] = (IF last.reply.numbers[m] > 100 THEN 100
                                       ELSE IF last.reply.numbers[m] < 0 THEN 0
                                       ELSE last.reply.numbers[m])
                      ELSE after[m] = last.before[m]
              ELSE after = last.before

\* joy above 1 was clamped, anger below 0 too, fear kept from an earlier
\* partial answer
C33_Witness ==
    /\ last.op = "reflect" /\ last.actor = Al
    /\ last.reply = MoodAnswer("object", [joy |-> 150, anger |-> -20], {})
    /\ last.before.fear = 40 /\ last.before.anger = 100
    /\ wa.world_state.character_states[Al].current_mood.joy = 100
    /\ wa.world_state.character_states[Al].current_mood.anger = 0
    /\ wa.world_state.character_states[Al].current_mood.fear = 40

----------------------------------------------------------------------------
(* PlanSpec: plans naming another character, the actor, an unknown id or   *)
(* nobody are applied with outcomes of every keyword class                  *)

\* text: 'Al attacks Bo.'
o_attacks == <<"A", "l", " ", "a", "t", "t", "a", "c", "k", "s", " ", "B", "o", ".">>
\* text: 'Al disagrees with Bo.'
o_disagrees == <<"A", "l", " ", "d", "i", "s", "a", "g", "r", "e", "e", "s", " ", "w", "i", "t", "h", " ", "B", "o", ".">>
\* text: 'Al helps Bo, then insults Bo.'
o_helps_then_insults == <<"A", "l", " ", "h", "e", "l", "p", "s", " ", "B", "o", ",", " ", "t", "h", "e", "n", " ", "i", "n", "s", "u", "l", "t", "s", " ", "B", "o", ".">>

PlanTargetSelf == [action |-> a_help, details |-> [recipient |-> Al], tone_of_action |-> "kind"]
PlanTargetUnknown == [action |-> a_help, details |-> [target_char_id |-> Zed], tone_of_action |-> "kind"]
PlanUnknownThenBo == [action |-> a_help, details |-> [target_char_id |-> Zed, target |-> Bo], tone_of_action |-> "kind"]
PlanSet == {PlanWave, PlanHelpBo, PlanTargetSelf, PlanTargetUnknown, PlanUnknownThenBo}
PlanOutcomes == {LlmFail, LlmText(o_nods), LlmText(o_helps), LlmText(o_attacks), LlmText(o_disagrees), LlmText(o_helps_then_insults)}

\* states the pair's record is given with update_state before plans are applied
PlanStates == { [trust |-> 50, affinity |-> -980, status |-> "rivals"],
                [trust |-> 960, affinity |-> 990, status |-> "allies"] }

MaxPlanTurns == 3

\* the record kept of the most recent call with the graph before it
PlanCall(op, actor_name, plan_json, llm, out, graph_before, adjustments) ==
    [op |-> op, actor_name |-> actor_name, plan_json |-> plan_json, llm |-> llm,
     out |-> out, graph_before |-> graph_before, adjustments |-> adjustments]

PlanInit ==
    /\ wa = WorldAgentNew(WorldFree, ApiCast.ids, ApiCast.states)
    /\ relationships = <<>>
    /\ last = PlanCall("none", <<>>, PlanWave, LlmFail, <<>>, <<>>, <<>>)
    /\ MainIdle

PlanUpdateState ==
    /\ relationships = <<>>
    /\ \E new_state \in PlanStates :
          /\ relationships' = update_state(relationships, Al, Bo, new_state)
          /\ last' = PlanCall("update_state", Al, PlanWave, LlmFail, <<>>, relationships, <<>>)
    /\ UNCHANGED <<wa, main_vars>>

PlanApplyPlan ==
    /\ wa.world_state.turn_number < MaxPlanTurns
    /\ \E actor_name \in {Al, Bo}, plan_json \in PlanSet, llm \in PlanOutcomes :
          LET res == apply_plan(wa, relationships, actor_name, plan_json, llm)
          IN  /\ wa' = res.wa
              /\ relationships' = res.rel
              /\ last' = PlanCall("apply_plan", actor_name, plan_json, llm, res.out,
                                  relationships,
                                  IF llm.ok
                                  THEN RelationshipAdjustments(wa, actor_name,
                                                               plan_json.details, res.out)
                                  ELSE <<>>)
    /\ UNCHANGED main_vars

PlanNext == PlanUpdateState \/ PlanApplyPlan

PlanSpec == PlanInit /\ [][PlanNext]_vars

\* the plan's details name, under one of the target keys, a character of the
\* world state other than the actor
NamesOtherCharacter(actor_name, details) ==
    \E i \in 1..Len(TargetCharKeys) :
        /\ DetailsGet(details, TargetCharKeys[i]) \in DOMAIN CharacterStates
        /\ DetailsGet(details, TargetCharKeys[i]) # actor_name

PolarityKeywords == PositiveVerbs \cup NegativeVerbs \cup {k_disagrees_with}

HasPolarityKeyword(text) == \E verb \in PolarityKeywords : Contains(Lower(text), verb)

\* the target the plan names first, <<>> when it names none
NamedTarget(details) ==
    LET named == {i \in 1..Len(TargetCharKeys) : DetailsGet(details, TargetCharKeys[i]) # <<>>}
    IN  IF named = {} THEN <<>>
        ELSE DetailsGet(details, TargetCharKeys[CHOOSE i \in named : \A j \in named : i <= j])

\* C34: apply_plan leaves the relationship graph unchanged unless the plan's
\* details name, under one of the target keys, an existing character other
\* than the actor and the outcome contains a polarity keyword: the graph is
\* unchanged when the service fails (and the fallback sentence is returned),
\* when the named target is the actor or an unknown id, when no target is
\* named and when the outcome is neutral; no adjust_state call of apply_plan
\* has two equal ids.
C34_GraphChangesOnlyOnClassifiedTarget ==
    LET call == last
    IN  (call.op = "apply_plan") =>
            /\ (relationships # call.graph_before) =>
                  /\ call.llm.ok
                  /\ NamesOtherCharacter(call.actor_name, call.plan_json.details)
                  /\ HasPolarityKeyword(call.out)
            /\ (~call.llm.ok) =>
                  /\ relationships = call.graph_before
                  /\ call.out = FallbackOutcome(call.actor_name, call.plan_json.action)
            /\ (NamedTarget(call.plan_json.details) \notin
                    (DOMAIN CharacterStates) \ {call.actor_name}) =>
                  relationships = call.graph_before
            /\ (~HasPolarityKeyword(call.out)) => relationships = call.graph_before
            /\ \A i \in 1..Len(call.adjustments) :
                  call.adjustments[i][1] # call.adjustments[i][2]

C34_Witness ==
    /\ last.op = "apply_plan"
    /\ last.actor_name = Al
    /\ last.plan_json = PlanTargetSelf
    /\ last.out = o_attacks
    /\ last.graph_before # <<>>
    /\ relationships = last.graph_before
    /\ wa.world_state.turn_number = 3

\* "agrees with" occurs in the text other than as the end of "disagrees with"
AgreesOutsideDisagrees(text) ==
    \E i \in 1..Len(text) :
        /\ i + Len(k_agrees_with) - 1 <= Len(text)
        /\ SubSeq(text, i, i + Len(k_agrees_with) - 1) = k_agrees_with
        /\ ~(i > 3 /\ SubSeq(text, i - 3, i - 1) = <<"d", "i", "s">>)

\* the base deltas of the three keyword classes, in thousandths, a positive
\* keyword going first; "disagrees with" is a keyword of its own
ClassifiedBase(factual_outcome) ==
    LET outcome_lower == Lower(factual_outcome)
    IN  IF \/ \E verb \in PositiveVerbs \ {k_agrees_with} : Contains(outcome_lower, verb)
           \/ AgreesOutsideDisagrees(outcome_lower)
        THEN <<50, 20>>
        ELSE IF \E verb \in NegativeVerbs : Contains(outcome_lower, verb) THEN <<-100, -50>>
        ELSE IF Contains(outcome_lower, k_disagrees_with) THEN <<-20, -10>>
        ELSE <<0, 0>>

ClampTrust(x) == Min(1000, Max(0, x))
ClampAffinity(x) == Min(1000, Max(-1000, x))

\* C39: both adjustments of one apply_plan land on the record of the
\* unordered pair: after a classified outcome its trust and affinity are the
\* previous ones plus the base delta, clamped, plus 0.8 times the base delta,
\* clamped (positive keywords +0.05/+0.02, attack-type keywords -0.10/-0.05,
\* "disagrees with" -0.02/-0.01, a positive keyword going before a negative
\* one), and get_state(actor, target) equals get_state(target, actor).
C39_BothDirectionsOnOneRecord ==
    LET call == last
        target == NamedTarget(call.plan_json.details)
        base == ClassifiedBase(call.out)
        before == get_state(call.graph_before, call.actor_name, target)
        after == get_state(relationships, call.actor_name, target)
    IN  (/\ call.op = "apply_plan"
         /\ call.llm.ok
         /\ NamesOtherCharacter(call.actor_name, call.plan_json.details)
         /\ target \in DOMAIN CharacterStates
         /\ HasPolarityKeyword(call.out)) =>
            /\ after.trust = ClampTrust(ClampTrust(before.trust + base[1]) + Times08(base[1]))
            /\ after.affinity =
                  ClampAffinity(ClampAffinity(before.affinity + base[2]) + Times08(base[2]))
            /\ after.status = before.status
            /\ get_state(relationships, target, call.actor_name) = after
            /\ DOMAIN relationships = (DOMAIN call.graph_before) \cup {{call.actor_name, target}}

----------------------------------------------------------------------------
(* PovSpec: the POV character is chosen over casts of none, two and three   *)
(* characters, with answers that match, match nobody, or fail               *)

PovCasts == { Cast(<<>>, <<>>), Cast(<<Al, Bo>>, <<8, 6>>), Cast(<<Bo, Al, Cy>>, <<8, 6, 4>>) }

\* the record kept of the most recent call; pick is the index random.choice
\* draws when it is called
PovCall(op, llm, pick, selected_character, pov_info) ==
    [op |-> op, llm |-> llm, pick |-> pick, selected_character |-> selected_character,
     pov_info |-> pov_info]

PovInit ==
    /\ \E cast \in PovCasts : wa = WorldAgentNew(WorldFree, cast.ids, cast.states)
    /\ relationships = <<>>
    /\ last = PovCall("none", LlmFail, 1, <<>>, NoInfo)
    /\ MainIdle

PovInitScene ==
    /\ SceneNumberOf(wa.world_state.current_scene_id) < MaxSceneNumber
    /\ wa' = init_scene(wa, NoArg)
    /\ last' = PovCall("init_scene", LlmFail, 1, <<>>, NoInfo)
    /\ UNCHANGED <<relationships, main_vars>>

PovUpdateCharacterMood ==
    /\ \E mood \in Moods :
          wa' = update_character_mood(wa, Al, mood)
    /\ last' = PovCall("update_character_mood", LlmFail, 1, <<>>, NoInfo)
    /\ UNCHANGED <<relationships, main_vars>>

PovChoose ==
    /\ \E llm \in NameReplies, pick \in 1..Max(1, Len(wa.world_state.active_characters)) :
          LET res == choose_pov_character_for_scene(wa, llm, pick)
          IN  /\ wa' = res.wa
              /\ last' = PovCall("choose_pov_character_for_scene", llm, pick, res.out, res.info)
    /\ UNCHANGED <<relationships, main_vars>>

PovNext == PovInitScene \/ PovUpdateCharacterMood \/ PovChoose

PovSpec == PovInit /\ [][PovNext]_vars

\* the most recent call chose a POV character among active characters and the
\* service's answer matched none of them
PovNoMatch ==
    /\ last.op = "choose_pov_character_for_scene"
    /\ ActiveCharacters # <<>>
    /\ last.llm.ok
    /\ MatchName(ActiveCharacters, last.llm.text) = <<>>

\* the most recent call chose a POV character among active characters and the
\* service call failed
PovFailure ==
    /\ last.op = "choose_pov_character_for_scene"
    /\ ActiveCharacters # <<>>
    /\ ~last.llm.ok

\* C35 as stated: choose_pov_character_for_scene uses one and the same
\* fallback, the random choice among the active characters, both when the
\* service's answer matches no active character and when the service call
\* fails.
C35_SameRandomFallback ==
    (PovNoMatch \/ PovFailure) => last.selected_character = ActiveCharacters[last.pick]

\* C35 amended: choose_pov_character_for_scene uses two fallbacks: the first
\* active character when the service's answer matches no active character,
\* the random choice among the active characters when the service call fails.
C35_FirstOnNoMatchRandomOnFailure ==
    /\ PovNoMatch => last.selected_character = ActiveCharacters[1]
    /\ PovFailure => last.selected_character = ActiveCharacters[last.pick]

C35_Witness ==
    /\ PovNoMatch
    /\ Len(ActiveCharacters) = 3
    /\ last.pick = 3
    /\ last.selected_character = Bo
    /\ CharacterStates[Al].current_mood.joy = 100
    /\ wa.world_state.current_scene_id = SceneId(2)

----------------------------------------------------------------------------
(* Scripted beats across scene openings (checked in EventSpec)              *)

\* the first beat of scene scene_number whose id is not in the completed
\* set, as a list of at most one beat
FirstUnconsumedBeat(w, scene_number) ==
    LET scene_beats == SelectBeats(w.world_definition.script_beats, scene_number, 1)
        open == {i \in 1..Len(scene_beats) : scene_beats[i].beat_id \notin w.completed_beats}
    IN  IF open = {} THEN <<>>
        ELSE <<scene_beats[CHOOSE i \in open : \A j \in open : i <= j]>>

\* C36: in scripted mode init_scene(n) makes the first beat of scene n that is
\* not in the completed set the current beat, or none when scene n has no
\* such beat; a completed beat is never current; and once a beat of the scene
\* is completed the next un-completed beat of the scene is the current one.
C36_FirstUnconsumedBeatLoaded ==
    [][ wa'.script_mode =>
          LET scene_number == SceneNumberOf(wa'.world_state.current_scene_id)
          IN  /\ (last'.op = "init_scene") =>
                    wa'.current_beat = FirstUnconsumedBeat(wa', scene_number)
              /\ (wa'.current_beat # <<>>) =>
                    wa'.current_beat[1].beat_id \notin wa'.completed_beats
              /\ (wa'.completed_beats # wa.completed_beats) =>
                    wa'.current_beat = FirstUnconsumedBeat(wa', scene_number)
      ]_vars

----------------------------------------------------------------------------
(* Scene numbers of the turn loop and of the world state (checked in Spec)  *)

\* the positions of main() between init_scene() and the end of the scene
InsideScene == pc \in {"judge", "decide", "reflect", "apply", "record", "inject", "cap", "pov"}

\* C38: during the k-th scene run by the turn loop (k = scene_num + 1, the
\* number under which main.py records the scene's log entries and stores its
\* summary) the scene id of the world state is "scene_k", the number
\* under which init_scene looks up the scene's beats.
C38_SceneNumbersAgree ==
    InsideScene => wa.world_state.current_scene_id = SceneId(scene_num + 1)

----------------------------------------------------------------------------
(* ClearSpec: remember and summarise_scene interleaved with the clearing    *)
(* and resetting operations of the MemoryManager                            *)

\* the last call, the manager before it, and whether a clear or a reset has
\* been issued so far
ClearCall(op, actor_name, before, cleared) ==
    [op |-> op, actor_name |-> actor_name, before |-> before, cleared |-> cleared]

ClearInit ==
    /\ wa = WorldAgentNew(WorldFree, ApiCast.ids, ApiCast.states)
    /\ relationships = <<>>
    /\ last = ClearCall("none", <<>>, MemoryManagerNew, FALSE)
    /\ MainIdle

ClearRemember ==
    /\ Len(memory.ltm_store) < MaxRemembers
    /\ \E actor_name \in MemActors :
          /\ actor_name = Bo =>
                Len(EntriesOf(memory.ltm_store, Bo)) < MaxOtherRemembers
          /\ memory' = remember(memory, actor_name, "saw", "calm")
          /\ last' = ClearCall("remember", actor_name, memory, last.cleared)
    /\ UNCHANGED mem_frame

ClearSummariseScene ==
    /\ memory.scene_summaries = <<>>
    /\ memory' = summarise_scene(memory, 1, <<[actor |-> Al, outcome |-> o_nods]>>).mm
    /\ last' = ClearCall("summarise_scene", <<>>, memory, last.cleared)
    /\ UNCHANGED mem_frame

ClearStmForActor ==
    /\ \E actor_name \in MemActors \cup {Cy} :
          /\ memory' = clear_stm_for_actor(memory, actor_name)
          /\ last' = ClearCall("clear_stm_for_actor", actor_name, memory, TRUE)
    /\ UNCHANGED mem_frame

ClearAllStm ==
    /\ memory' = clear_all_stm(memory)
    /\ last' = ClearCall("clear_all_stm", <<>>, memory, TRUE)
    /\ UNCHANGED mem_frame

ClearResetMemory ==
    /\ memory' = reset_memory(memory)
    /\ last' = ClearCall("reset_memory", <<>>, memory, TRUE)
    /\ UNCHANGED mem_frame

ClearNext ==
    \/ ClearRemember
    \/ ClearSummariseScene
    \/ ClearStmForActor
    \/ ClearAllStm
    \/ ClearResetMemory

ClearSpec == ClearInit /\ [][ClearNext]_vars

\* self.stm.get(actor_name, [])
StmOf(mm, actor_name) == IF actor_name \in DOMAIN mm.stm THEN mm.stm[actor_name] ELSE <<>>

\* C40: as long as no clear or reset has been issued, each actor's short-term
\* list equals the last min(10, n) of that actor's n entries of the long-term
\* log, in the same order; remember only appends to the long-term log; and
\* clear_stm_for_actor and clear_all_stm leave the long-term log and the
\* scene summaries unchanged.
C40_ShortTermMirrorsLog ==
    /\ (~last.cleared) =>
          \A a \in MemActors \cup {Cy} :
              LET own == EntriesOf(memory.ltm_store, a)
              IN  StmOf(memory, a) = LastN(own, Min(10, Len(own)))
    /\ (last.op = "remember") =>
          /\ Len(memory.ltm_store) = Len(last.before.ltm_store) + 1
          /\ IsPrefix(last.before.ltm_store, memory.ltm_store)
    /\ (last.op \in {"clear_stm_for_actor", "clear_all_stm"}) =>
          /\ memory.ltm_store = last.before.ltm_store
          /\ memory.scene_summaries = last.before.scene_summaries

\* the first actor's list had overflowed and mirrored the log when it was
\* cleared; log and summary are still there
C40_Witness ==
    /\ last.op = "clear_stm_for_actor" /\ last.actor_name = Al
    /\ Len(EntriesOf(last.before.ltm_store, Al)) = 11
    /\ StmOf(last.before, Al) = LastN(EntriesOf(last.before.ltm_store, Al), 10)
    /\ StmOf(memory, Al) = <<>>
    /\ Len(StmOf(memory, Bo)) = 1
    /\ Len(memory.ltm_store) = 12
    /\ memory.scene_summaries # <<>>

====
